---- MODULE Spec2Model ----
(***************************************************************************)
(* A model of the cozy-chess board: the attack tables, the Zobrist board,  *)
(* the legal move generator (generate_moves) and the incremental position  *)
(* update (try_play_unchecked, try_play, try_null_move).                   *)
(*                                                                         *)
(* A BitBoard is the set of the squares whose bit is set, a Square is its  *)
(* index 0..63 (rank * 8 + file), an Option<T> is a set with at most one   *)
(* element, and the 64-bit Zobrist hash is the set of the keys that have   *)
(* been XORed in an odd number of times (XOR of independent keys).         *)
(***************************************************************************)
EXTENDS Integers, Sequences, FiniteSets, TLC

\* ------------------------------------------------------------------ types

Colors == {"White", "Black"}

Pieces == {"Pawn", "Knight", "Bishop", "Rook", "Queen", "King"}

\* Piece::ALL, in declaration order (piece_on searches in this order).
PieceALL == <<"Pawn", "Knight", "Bishop", "Rook", "Queen", "King">>

FileNUM == 8

RankNUM == 8

SquareNUM == 64

Files == 0 .. (FileNUM - 1)

Ranks == 0 .. (RankNUM - 1)

Squares == 0 .. (SquareNUM - 1)

FileA == 0

FileB == 1

FileC == 2

FileD == 3

FileF == 5

FileG == 6

FileH == 7

RankFirst == 0

RankSecond == 1

RankThird == 2

RankFourth == 3

RankFifth == 4

RankSixth == 5

RankSeventh == 6

RankEighth == 7

\* impl Not for Color
Not(color) == IF color = "White" THEN "Black" ELSE "White"

\* Square::new, Square::file, Square::rank
SquareNew(file, rank) == rank * 8 + file

FileOf(sq) == sq % 8

RankOf(sq) == sq \div 8

\* Rank::flip, Rank::relative_to, Rank::bitboard
RankFlip(rank) == RankEighth - rank

RelativeTo(rank, color) == IF color = "White" THEN rank ELSE RankFlip(rank)

RankBitboard(rank) == {sq \in Squares : RankOf(sq) = rank}

FileBitboard(file) == {sq \in Squares : FileOf(sq) = file}

\* BitBoard ^ (symmetric difference of the two sets of squares)
Xor(a, b) == (a \ b) \cup (b \ a)

\* BitBoard::next_square: the least significant set square
NextSquare(bb) == CHOOSE sq \in bb : \A other \in bb : sq <= other

\* Mutant of BitBoardIter: the most significant square comes first.
RECURSIVE BitBoardIterDescending(_)
BitBoardIterDescending(bb) ==
    IF bb = {} THEN <<>>
    ELSE LET sq == CHOOSE top \in bb : \A other \in bb : top >= other
         IN <<sq>> \o BitBoardIterDescending(bb \ {sq})

\* impl Iterator for BitBoard: the squares, least significant first
RECURSIVE BitBoardIter(_)
BitBoardIter(bb) ==
    IF bb = {} THEN <<>>
    ELSE LET sq == NextSquare(bb) IN <<sq>> \o BitBoardIter(bb \ {sq})

\* SquareDelta::add: Some(square) as {square}, None as {}
DeltaAdd(delta, sq) ==
    LET offset(file, rank) ==
            IF file \in Files /\ rank \in Ranks THEN {SquareNew(file, rank)} ELSE {}
    IN offset(FileOf(sq) + delta[1], RankOf(sq) + delta[2])

\* ----------------------------------------------------------- attack tables

KNIGHT_DELTAS ==
    << <<-1, 2>>, <<1, 2>>, <<2, 1>>, <<2, -1>>,
       <<1, -2>>, <<-1, -2>>, <<-2, -1>>, <<-2, 1>> >>

KING_DELTAS ==
    << <<0, 1>>, <<1, 1>>, <<1, 0>>, <<1, -1>>,
       <<0, -1>>, <<-1, -1>>, <<-1, 0>>, <<-1, 1>> >>

PAWN_DELTAS ==
    [White |-> << <<1, 1>>, <<-1, 1>> >>, Black |-> << <<1, -1>>, <<-1, -1>> >>]

BISHOP_DELTAS == << <<1, 1>>, <<1, -1>>, <<-1, -1>>, <<-1, 1>> >>

ROOK_DELTAS == << <<1, 0>>, <<0, -1>>, <<-1, 0>>, <<0, 1>> >>

DeltaMoves(deltas, sq) ==
    UNION {DeltaAdd(deltas[i], sq) : i \in DOMAIN deltas}

KnightTable == [sq \in Squares |-> DeltaMoves(KNIGHT_DELTAS, sq)]

KingTable == [sq \in Squares |-> DeltaMoves(KING_DELTAS, sq)]

PawnAttackTable ==
    [color \in Colors |-> [sq \in Squares |-> DeltaMoves(PAWN_DELTAS[color], sq)]]

get_knight_moves(sq) == KnightTable[sq]

get_king_moves(sq) == KingTable[sq]

get_pawn_attacks(sq, color) == PawnAttackTable[color][sq]

RookRayTable ==
    [sq \in Squares |-> Xor(RankBitboard(RankOf(sq)), FileBitboard(FileOf(sq)))]

Abs(n) == IF n < 0 THEN -n ELSE n

BishopRayTable ==
    [sq \in Squares |->
        {target \in Squares :
            LET rd == Abs(RankOf(sq) - RankOf(target))
                fd == Abs(FileOf(sq) - FileOf(target))
            IN rd = fd /\ rd # 0}]

get_rook_rays(sq) == RookRayTable[sq]

get_bishop_rays(sq) == BishopRayTable[sq]

\* The walk of one direction that fills the sliding table: step while the
\* current square is no blocker, adding every square stepped onto.
RECURSIVE WalkRay(_, _, _)
WalkRay(sq, delta, blockers) ==
    IF sq \in blockers THEN {}
    ELSE UNION {{next} \cup WalkRay(next, delta, blockers) :
                   next \in DeltaAdd(delta, sq)}

SliderMovesSlow(sq, deltas, blockers) ==
    UNION {WalkRay(sq, deltas[i], blockers) : i \in DOMAIN deltas}

\* The last square of the walk of one direction on the empty board.
RECURSIVE RayEnd(_, _)
RayEnd(sq, delta) ==
    LET step(next) == IF next = {} THEN sq ELSE RayEnd(NextSquare(next), delta)
    IN step(DeltaAdd(delta, sq))

\* The relevant blockers of a slider on sq: its rays without the last
\* square of each ray (and without sq itself).
RelevantBlockers(sq, deltas) ==
    SliderMovesSlow(sq, deltas, {}) \ {RayEnd(sq, deltas[i]) : i \in DOMAIN deltas}

RookMaskTable == [sq \in Squares |-> RelevantBlockers(sq, ROOK_DELTAS)]

BishopMaskTable == [sq \in Squares |-> RelevantBlockers(sq, BISHOP_DELTAS)]

\* Mutant of get_rook_moves: the entry of the empty blocker set is returned.
get_rook_movesEmptyEntry(sq, blockers) == SliderMovesSlow(sq, ROOK_DELTAS, {})

\* The table entry of (square, blockers) is the one written for the
\* blockers inside the mask: the index only depends on blockers & mask.
get_rook_moves(sq, blockers) ==
    SliderMovesSlow(sq, ROOK_DELTAS, blockers \cap RookMaskTable[sq])

get_bishop_moves(sq, blockers) ==
    SliderMovesSlow(sq, BISHOP_DELTAS, blockers \cap BishopMaskTable[sq])

\* Mutant of between_rays: the two squares are not made blockers.
between_raysNoBlockers(from, to) ==
    LET bishop_ray == get_bishop_moves(from, {})
        rook_ray == get_rook_moves(from, {})
    IN IF to \in bishop_ray THEN bishop_ray \cap get_bishop_moves(to, {})
       ELSE IF to \in rook_ray THEN rook_ray \cap get_rook_moves(to, {})
       ELSE {}

between_rays(from, to) ==
    LET blockers == Xor({from}, {to})
        bishop_ray == get_bishop_moves(from, blockers)
        rook_ray == get_rook_moves(from, blockers)
    IN IF to \in bishop_ray THEN bishop_ray \cap get_bishop_moves(to, blockers)
       ELSE IF to \in rook_ray THEN rook_ray \cap get_rook_moves(to, blockers)
       ELSE {}

BetweenTable == [from \in Squares |-> [to \in Squares |-> between_rays(from, to)]]

get_between_rays(from, to) == BetweenTable[from][to]

line_rays(from, to) ==
    IF to \in get_bishop_rays(from)
    THEN (get_bishop_rays(from) \cup {from}) \cap (get_bishop_rays(to) \cup {to})
    ELSE IF to \in get_rook_rays(from)
    THEN (get_rook_rays(from) \cup {from}) \cap (get_rook_rays(to) \cup {to})
    ELSE {}

LineTable == [from \in Squares |-> [to \in Squares |-> line_rays(from, to)]]

get_line_rays(from, to) == LineTable[from][to]

\* BitBoard << 8 and >> 8: bits shifted out of the 64 are lost
ShiftUp(bb) == {sq + FileNUM : sq \in {s \in bb : s + FileNUM < SquareNUM}}

ShiftDown(bb) == {sq - FileNUM : sq \in {s \in bb : s >= FileNUM}}

get_pawn_quiets(sq, color, blockers) ==
    LET push(bb) == IF color = "White" THEN ShiftUp(bb) ELSE ShiftDown(bb)
        moves == push({sq}) \ blockers
    IN IF moves # {} /\ sq \in RankBitboard(RelativeTo(RankSecond, color))
       THEN (moves \cup push(moves)) \ blockers
       ELSE moves

\* ------------------------------------------------------------ ZobristBoard

\* The Zobrist keys: one per (piece, color, square), one per castle right
\* (side, color, rook file), one per en passant file, one for the side to
\* move. Keys are independent, so a hash is the set of the keys XORed in.
SquareKey(piece, color, sq) == <<"square", piece, color, sq>>

CastleKey(color, short, file) ==
    <<"castle", IF short THEN "short" ELSE "long", color, file>>

EnPassantKey(file) == <<"en_passant", "-", "-", file>>

SideToMoveKey == <<"side_to_move", "-", "-", 0>>

CastleRightsEMPTY == [short |-> {}, long |-> {}]

\* ZobristBoard::empty
ZobristEmpty ==
    [pieces |-> [p \in Pieces |-> {}],
     colors |-> [c \in Colors |-> {}],
     side_to_move |-> "White",
     castle_rights |-> [c \in Colors |-> CastleRightsEMPTY],
     en_passant |-> {},
     hash |-> {}]

\* ZobristBoard::xor_square: toggle the piece bit, the colour bit and the key
xor_square(b, piece, color, sq) ==
    [b EXCEPT !.pieces[piece] = Xor(@, {sq}),
              !.colors[color] = Xor(@, {sq}),
              !.hash = Xor(@, {SquareKey(piece, color, sq)})]

\* ZobristBoard::set_castle_right: the key of the old file out, of the new in
set_castle_right(b, color, short, file) ==
    LET prev == IF short THEN b.castle_rights[color].short
                ELSE b.castle_rights[color].long
        out == {CastleKey(color, short, f) : f \in prev}
        in == {CastleKey(color, short, f) : f \in file}
    IN IF short
       THEN [b EXCEPT !.castle_rights[color].short = file,
                      !.hash = Xor(Xor(@, out), in)]
       ELSE [b EXCEPT !.castle_rights[color].long = file,
                      !.hash = Xor(Xor(@, out), in)]

\* Mutant of set_en_passant: the key of the file set before stays in the
\* hash.
set_en_passantKeepsOldKey(b, file) ==
    [b EXCEPT !.en_passant = file,
              !.hash = Xor(@, {EnPassantKey(f) : f \in file})]

\* ZobristBoard::set_en_passant
set_en_passant(b, file) ==
    [b EXCEPT !.en_passant = file,
              !.hash = Xor(Xor(@, {EnPassantKey(f) : f \in b.en_passant}),
                           {EnPassantKey(f) : f \in file})]

\* ZobristBoard::toggle_side_to_move
toggle_side_to_move(b) ==
    [b EXCEPT !.side_to_move = Not(@), !.hash = Xor(@, {SideToMoveKey})]

\* Mutant of hash_without_ep: the en passant key stays in the hash.
hash_without_epKeepsKey(b) == b.hash

\* ZobristBoard::hash_without_ep
hash_without_ep(b) == Xor(b.hash, {EnPassantKey(f) : f \in b.en_passant})

\* ------------------------------------------------------------------ Board

\* A Board is the ZobristBoard's fields with pinned, checkers,
\* halfmove_clock and fullmove_number.
BoardEmpty ==
    [pieces |-> ZobristEmpty.pieces,
     colors |-> ZobristEmpty.colors,
     side_to_move |-> ZobristEmpty.side_to_move,
     castle_rights |-> ZobristEmpty.castle_rights,
     en_passant |-> ZobristEmpty.en_passant,
     hash |-> ZobristEmpty.hash,
     pinned |-> {},
     checkers |-> {},
     halfmove_clock |-> 0,
     fullmove_number |-> 0]

occupied(b) == b.colors["White"] \cup b.colors["Black"]

\* Board::piece_on: the first piece of Piece::ALL whose bitboard has the square
piece_on(b, sq) ==
    LET found == {i \in DOMAIN PieceALL : sq \in b.pieces[PieceALL[i]]}
    IN IF found = {} THEN {} ELSE {PieceALL[NextSquare(found)]}

\* Board::color_on
color_on(b, sq) ==
    IF sq \in b.colors["White"] THEN {"White"}
    ELSE IF sq \in b.colors["Black"] THEN {"Black"}
    ELSE {}

\* Board::try_king: Ok(square) as {square}, Err(InvalidBoard) as {}
try_king(b, color) ==
    LET kings == b.pieces["King"] \cap b.colors[color]
    IN IF kings = {} THEN {} ELSE {NextSquare(kings)}

\* Board::king, for boards that have the king
king(b, color) == NextSquare(b.pieces["King"] \cap b.colors[color])

\* The enemy sliders on the rays of the king of `color`.
SliderAttackers(b, our_king, attacker_color) ==
    b.colors[attacker_color] \cap
        ((get_bishop_rays(our_king) \cap (b.pieces["Bishop"] \cup b.pieces["Queen"]))
         \cup
         (get_rook_rays(our_king) \cap (b.pieces["Rook"] \cup b.pieces["Queen"])))

\* Board::calculate_checkers_and_pins, as <<checkers, pinned>>
calculate_checkers_and_pins(b, color) ==
    LET our_king == king(b, color)
        their_pieces == b.colors[Not(color)]
        \* `between` maps each of their_attackers to the occupied squares
        \* between it and the king
        match(between) ==
            LET slider_checkers ==
                    {a \in DOMAIN between : Cardinality(between[a]) = 0}
                pinned ==
                    UNION {between[a] :
                              a \in {x \in DOMAIN between : Cardinality(between[x]) = 1}}
            IN << slider_checkers
                  \cup (get_knight_moves(our_king) \cap their_pieces
                            \cap b.pieces["Knight"])
                  \cup (get_pawn_attacks(our_king, color) \cap their_pieces
                            \cap b.pieces["Pawn"]),
                  pinned >>
    IN match([attacker \in SliderAttackers(b, our_king, Not(color)) |->
                 get_between_rays(attacker, our_king) \cap occupied(b)])

\* The castle rights part of validity_check for one colour.
CastleRightsValid(b, color) ==
    LET pieces == b.colors[color]
        back_rank == RelativeTo(RankFirst, color)
        rights == b.castle_rights[color]
        our_rooks == pieces \cap b.pieces["Rook"]
    IN (rights.short # {} \/ rights.long # {}) =>
          /\ RankOf(king(b, color)) = back_rank
          /\ \A rook \in rights.long :
                /\ SquareNew(rook, back_rank) \in our_rooks
                /\ rook < FileOf(king(b, color))
          /\ \A rook \in rights.short :
                /\ SquareNew(rook, back_rank) \in our_rooks
                /\ FileOf(king(b, color)) < rook

MaxPieces == 16

MaxPawns == 8

MaxCheckers == 3

\* Board::validity_check
validity_check(b) ==
    /\ \A i, j \in DOMAIN PieceALL :
          i < j => b.pieces[PieceALL[i]] \cap b.pieces[PieceALL[j]] = {}
    /\ b.colors["White"] \cap b.colors["Black"] = {}
    /\ UNION {b.pieces[p] : p \in Pieces} = occupied(b)
    /\ \A color \in Colors :
          LET pieces == b.colors[color]
          IN /\ Cardinality(pieces \cap b.pieces["King"]) = 1
             /\ Cardinality(pieces) <= MaxPieces
             /\ Cardinality(pieces \cap b.pieces["Pawn"]) <= MaxPawns
             /\ pieces \cap b.pieces["Pawn"]
                    \cap RankBitboard(RelativeTo(RankFirst, color)) = {}
             /\ CastleRightsValid(b, color)
    /\ LET color == b.side_to_move
       IN /\ \A en_passant \in b.en_passant :
                /\ SquareNew(en_passant, RelativeTo(RankThird, Not(color)))
                      \notin occupied(b)
                /\ SquareNew(en_passant, RelativeTo(RankFourth, Not(color)))
                      \in (b.colors[Not(color)] \cap b.pieces["Pawn"])
          /\ calculate_checkers_and_pins(b, Not(color))[1] = {}
          /\ <<b.checkers, b.pinned>> = calculate_checkers_and_pins(b, color)
          /\ Cardinality(b.checkers) < MaxCheckers

\* ---------------------------------------------------------------- movegen

\* A PieceMoves value.
PieceMoves(piece, from, to) == [piece |-> piece, from |-> from, to |-> to]

\* The promotions of PieceMovesIter::next, in the order of its counter.
PromotionOrder == <<"Knight", "Bishop", "Rook", "Queen">>

\* impl Iterator for PieceMovesIter: the Moves of one PieceMoves, in order
RECURSIVE PieceMovesIter(_)
PieceMovesIter(moves) ==
    IF moves.to = {} THEN <<>>
    ELSE LET to == NextSquare(moves.to)
             is_promotion ==
                 moves.piece = "Pawn" /\ RankOf(to) \in {RankFirst, RankEighth}
             rest == PieceMovesIter([moves EXCEPT !.to = @ \ {to}])
         IN IF is_promotion
            THEN [i \in DOMAIN PromotionOrder |->
                     [from |-> moves.from, to |-> to,
                      promotion |-> {PromotionOrder[i]}]] \o rest
            ELSE <<[from |-> moves.from, to |-> to, promotion |-> {}]>> \o rest

\* PROMOTION_MASK of PieceMoves::len
PROMOTION_MASK == {sq \in Squares : RankOf(sq) \in {RankFirst, RankEighth}}

\* PieceMoves::len
PieceMovesLen(moves) ==
    IF moves.piece = "Pawn"
    THEN Cardinality(moves.to \ PROMOTION_MASK)
             + Cardinality(moves.to \cap PROMOTION_MASK) * 4
    ELSE Cardinality(moves.to)

\* IntoIterator for PieceMoves
into_iter(moves) == [moves |-> moves, promotion |-> 0]

\* PieceMovesIter::next: the iterator after the call and the Option<Move>
\* it returned. BitBoard's own next() removes the lowest square.
PieceMovesIterNext(it) ==
    IF it.moves.to = {} THEN [it |-> it, item |-> {}]
    ELSE LET to == NextSquare(it.moves.to)
             is_promotion ==
                 it.moves.piece = "Pawn" /\ RankOf(to) \in {RankFirst, RankEighth}
             advanced == [it EXCEPT !.moves.to = @ \ {to}, !.promotion = 0]
         IN IF is_promotion
            THEN [it |-> IF it.promotion < 3
                         THEN [it EXCEPT !.promotion = @ + 1]
                         ELSE advanced,
                  item |-> {[from |-> it.moves.from, to |-> to,
                             promotion |-> {PromotionOrder[it.promotion + 1]}]}]
            ELSE [it |-> [it EXCEPT !.moves.to = @ \ {to}],
                  item |-> {[from |-> it.moves.from, to |-> to,
                             promotion |-> {}]}]

\* Mutant of PieceMovesIterLen: the promotions already yielded for the
\* current square are not subtracted.
PieceMovesIterLenNoCounter(it) == PieceMovesLen(it.moves)

\* ExactSizeIterator for PieceMovesIter: len
PieceMovesIterLen(it) == PieceMovesLen(it.moves) - it.promotion

\* The listener is the set of the invocations (counted from 1) on which it
\* returns true. A generation in progress is the sequence of the PieceMoves
\* passed to the listener so far and whether the listener asked to abort.
GenStart == [calls |-> <<>>, ret |-> FALSE]

\* A listener that returns true from its k-th invocation on (never for
\* k = 0): `|_| true` is ListenerFrom(1), `|_| false` is ListenerFrom(0).
ListenerFrom(k) == IF k = 0 THEN {} ELSE {n \in Nat : n >= k}

\* Mutant of ListenLoop: the listener's answer is kept, but the loop goes
\* on to the next PieceMoves instead of returning.
RECURSIVE ListenLoopNoReturn(_, _, _)
ListenLoopNoReturn(gen, batches, listener) ==
    IF batches = <<>> THEN gen
    ELSE LET calls == Append(gen.calls, Head(batches))
         IN ListenLoopNoReturn([calls |-> calls, ret |-> Len(calls) \in listener],
                               Tail(batches), listener)

\* One `abort_if!(listener(moves))` of a loop over `batches`: the batches
\* are passed in order until the listener returns true.
RECURSIVE ListenLoop(_, _, _)
ListenLoop(gen, batches, listener) ==
    IF gen.ret \/ batches = <<>> THEN gen
    ELSE LET calls == Append(gen.calls, Head(batches))
         IN ListenLoop([calls |-> calls, ret |-> Len(calls) \in listener],
                       Tail(batches), listener)

\* Mutant of LoopBatches: the loop runs twice over its pieces.
LoopBatchesTwice(piece_kind, moves) ==
    LET order == BitBoardIter(DOMAIN moves)
        all == [i \in DOMAIN order |-> PieceMoves(piece_kind, order[i], moves[order[i]])]
    IN SelectSeq(all \o all, LAMBDA m : m.to # {})

\* Mutant of LoopBatches: the `if !moves.is_empty()` test is left out.
LoopBatchesUnfiltered(piece_kind, moves) ==
    LET order == BitBoardIter(DOMAIN moves)
    IN [i \in DOMAIN order |-> PieceMoves(piece_kind, order[i], moves[order[i]])]

\* The PieceMoves of a `for piece in pieces` loop whose moves are not empty;
\* `moves` maps each piece of the loop to its moves.
LoopBatches(piece_kind, moves) ==
    LET order == BitBoardIter(DOMAIN moves)
        all == [i \in DOMAIN order |-> PieceMoves(piece_kind, order[i], moves[order[i]])]
    IN SelectSeq(all, LAMBDA m : m.to # {})

\* Board::target_squares
target_squares(b, in_check) ==
    LET color == b.side_to_move
        checker == NextSquare(b.checkers)
        our_king == king(b, color)
    IN (IF in_check THEN get_between_rays(checker, our_king) \cup {checker}
        ELSE Squares) \ b.colors[color]

\* slider::SlidingPiece::pseudo_legals
pseudo_legals(piece, sq, blockers) ==
    CASE piece = "Bishop" -> get_bishop_moves(sq, blockers)
      [] piece = "Rook" -> get_rook_moves(sq, blockers)
      [] piece = "Queen" ->
            get_bishop_moves(sq, blockers) \cup get_rook_moves(sq, blockers)

\* Mutant of add_slider_legals: the moves of a pinned slider are not
\* restricted to the line through the king.
add_slider_legalsOffLine(b, piece, in_check, gen, listener) ==
    LET color == b.side_to_move
        pieces == b.pieces[piece] \cap b.colors[color]
        blockers == occupied(b)
        targets == target_squares(b, in_check)
        free == [sq \in pieces \ b.pinned |->
                    pseudo_legals(piece, sq, blockers) \cap targets]
        held == [sq \in pieces \cap b.pinned |->
                    pseudo_legals(piece, sq, blockers) \cap targets]
        pinned_loop(first) ==
            IF first.ret \/ in_check THEN first
            ELSE ListenLoop(first, LoopBatches(piece, held), listener)
    IN pinned_loop(ListenLoop(gen, LoopBatches(piece, free), listener))

\* Board::add_slider_legals
add_slider_legals(b, piece, in_check, gen, listener) ==
    LET color == b.side_to_move
        our_king == king(b, color)
        pieces == b.pieces[piece] \cap b.colors[color]
        pinned == b.pinned
        blockers == occupied(b)
        targets == target_squares(b, in_check)
        free == [sq \in pieces \ pinned |->
                    pseudo_legals(piece, sq, blockers) \cap targets]
        held == [sq \in pieces \cap pinned |->
                    pseudo_legals(piece, sq, blockers)
                        \cap (targets \cap get_line_rays(our_king, sq))]
        pinned_loop(first) ==
            IF first.ret \/ in_check THEN first
            ELSE ListenLoop(first, LoopBatches(piece, held), listener)
    IN pinned_loop(ListenLoop(gen, LoopBatches(piece, free), listener))

\* Board::add_knight_legals
add_knight_legals(b, in_check, gen, listener) ==
    LET color == b.side_to_move
        pieces == b.pieces["Knight"] \cap b.colors[color]
        targets == target_squares(b, in_check)
        free == [sq \in pieces \ b.pinned |-> get_knight_moves(sq) \cap targets]
    IN ListenLoop(gen, LoopBatches("Knight", free), listener)

\* The en passant captures of add_pawn_legals that do not uncover a slider.
EnPassantBatches(b, en_passant) ==
    LET color == b.side_to_move
        our_king == king(b, color)
        pieces == b.pieces["Pawn"] \cap b.colors[color]
        their_pieces == b.colors[Not(color)]
        their_bishops == their_pieces \cap (b.pieces["Bishop"] \cup b.pieces["Queen"])
        their_rooks == their_pieces \cap (b.pieces["Rook"] \cup b.pieces["Queen"])
        dest == SquareNew(en_passant, RelativeTo(RankThird, Not(color)))
        victim == SquareNew(en_passant, RelativeTo(RankFourth, Not(color)))
        uncovers(piece) ==
            LET blockers == Xor(Xor(occupied(b), {victim}), {piece}) \cup {dest}
            IN \/ /\ get_bishop_rays(our_king) \cap their_bishops # {}
                  /\ get_bishop_moves(our_king, blockers) \cap their_bishops # {}
               \/ /\ get_rook_rays(our_king) \cap their_rooks # {}
                  /\ get_rook_moves(our_king, blockers) \cap their_rooks # {}
        moves == [piece \in get_pawn_attacks(dest, Not(color)) \cap pieces |->
                     IF uncovers(piece) THEN {} ELSE {dest}]
    IN LoopBatches("Pawn", moves)

\* Mutant of add_pawn_legals: the loop over the pinned pawns is left out.
add_pawn_legalsNoPinned(b, in_check, gen, listener) ==
    LET color == b.side_to_move
        pieces == b.pieces["Pawn"] \cap b.colors[color]
        their_pieces == b.colors[Not(color)]
        targets == target_squares(b, in_check)
        pseudo(sq) ==
            get_pawn_quiets(sq, color, occupied(b))
                \cup (get_pawn_attacks(sq, color) \cap their_pieces)
        free == [sq \in pieces \ b.pinned |-> pseudo(sq) \cap targets]
        en_passant_loop(second) ==
            IF second.ret \/ b.en_passant = {} THEN second
            ELSE ListenLoop(second, EnPassantBatches(b, NextSquare(b.en_passant)),
                            listener)
    IN en_passant_loop(ListenLoop(gen, LoopBatches("Pawn", free), listener))

\* Mutant of add_pawn_legals: the second loop runs over every pawn, not
\* only the pinned ones.
add_pawn_legalsAllHeld(b, in_check, gen, listener) ==
    LET color == b.side_to_move
        our_king == king(b, color)
        pieces == b.pieces["Pawn"] \cap b.colors[color]
        their_pieces == b.colors[Not(color)]
        targets == target_squares(b, in_check)
        pseudo(sq) ==
            get_pawn_quiets(sq, color, occupied(b))
                \cup (get_pawn_attacks(sq, color) \cap their_pieces)
        free == [sq \in pieces \ b.pinned |-> pseudo(sq) \cap targets]
        held == [sq \in pieces |->
                    pseudo(sq) \cap (targets \cap get_line_rays(our_king, sq))]
        pinned_loop(first) ==
            IF first.ret \/ in_check THEN first
            ELSE ListenLoop(first, LoopBatches("Pawn", held), listener)
        en_passant_loop(second) ==
            IF second.ret \/ b.en_passant = {} THEN second
            ELSE ListenLoop(second, EnPassantBatches(b, NextSquare(b.en_passant)),
                            listener)
    IN en_passant_loop(pinned_loop(ListenLoop(gen, LoopBatches("Pawn", free), listener)))

\* Board::add_pawn_legals
add_pawn_legals(b, in_check, gen, listener) ==
    LET color == b.side_to_move
        our_king == king(b, color)
        pieces == b.pieces["Pawn"] \cap b.colors[color]
        their_pieces == b.colors[Not(color)]
        pinned == b.pinned
        blockers == occupied(b)
        targets == target_squares(b, in_check)
        pseudo(sq) ==
            get_pawn_quiets(sq, color, blockers)
                \cup (get_pawn_attacks(sq, color) \cap their_pieces)
        free == [sq \in pieces \ pinned |-> pseudo(sq) \cap targets]
        held == [sq \in pieces \cap pinned |->
                    pseudo(sq) \cap (targets \cap get_line_rays(our_king, sq))]
        pinned_loop(first) ==
            IF first.ret \/ in_check THEN first
            ELSE ListenLoop(first, LoopBatches("Pawn", held), listener)
        en_passant_loop(second) ==
            IF second.ret \/ b.en_passant = {} THEN second
            ELSE ListenLoop(second, EnPassantBatches(b, NextSquare(b.en_passant)),
                            listener)
    IN en_passant_loop(pinned_loop(ListenLoop(gen, LoopBatches("Pawn", free), listener)))

\* Board::king_safe_on
king_safe_on(b, sq) ==
    LET color == b.side_to_move
        their_pieces == b.colors[Not(color)]
        blockers ==
            Xor(occupied(b), b.pieces["King"] \cap b.colors[color]) \cup {sq}
    IN /\ get_bishop_moves(sq, blockers) \cap their_pieces
            \cap (b.pieces["Bishop"] \cup b.pieces["Queen"]) = {}
       /\ get_rook_moves(sq, blockers) \cap their_pieces
            \cap (b.pieces["Rook"] \cup b.pieces["Queen"]) = {}
       /\ get_knight_moves(sq) \cap their_pieces \cap b.pieces["Knight"] = {}
       /\ get_king_moves(sq) \cap their_pieces \cap b.pieces["King"] = {}
       /\ get_pawn_attacks(sq, color) \cap their_pieces \cap b.pieces["Pawn"] = {}

\* Mutant of handle_castling: the king's destination is left out of the
\* squares that must be empty.
handle_castlingDestNotEmpty(b, rook_file, king_dest_file, rook_dest_file) ==
    LET color == b.side_to_move
        our_king == king(b, color)
        back_rank == RelativeTo(RankFirst, color)
        rook == SquareNew(rook_file, back_rank)
        blockers == Xor(Xor(occupied(b), {our_king}), {rook})
        king_dest == SquareNew(king_dest_file, back_rank)
        rook_dest == SquareNew(rook_dest_file, back_rank)
        can_castle(king_to_rook, king_to_dest) ==
            /\ rook \notin b.pinned
            /\ blockers \cap (king_to_dest \cup king_to_rook \cup {rook_dest}) = {}
            /\ \A square \in king_to_dest \cup {king_dest} : king_safe_on(b, square)
    IN IF can_castle(get_between_rays(our_king, rook),
                     get_between_rays(our_king, king_dest))
       THEN {rook} ELSE {}

\* The handle_castling closure of add_king_legals: the rook square to add
\* to the king's moves, if the castle is possible.
handle_castling(b, rook_file, king_dest_file, rook_dest_file) ==
    LET color == b.side_to_move
        our_king == king(b, color)
        back_rank == RelativeTo(RankFirst, color)
        rook == SquareNew(rook_file, back_rank)
        blockers == Xor(Xor(occupied(b), {our_king}), {rook})
        king_dest == SquareNew(king_dest_file, back_rank)
        rook_dest == SquareNew(rook_dest_file, back_rank)
        can_castle(king_to_rook, king_to_dest) ==
            LET must_be_safe == king_to_dest \cup {king_dest}
                must_be_empty == must_be_safe \cup king_to_rook \cup {rook_dest}
            IN /\ rook \notin b.pinned
               /\ blockers \cap must_be_empty = {}
               /\ \A square \in must_be_safe : king_safe_on(b, square)
    IN IF can_castle(get_between_rays(our_king, rook),
                     get_between_rays(our_king, king_dest))
       THEN {rook} ELSE {}

\* Board::add_king_legals
add_king_legals(b, in_check, gen, listener) ==
    LET color == b.side_to_move
        our_pieces == b.colors[color]
        our_king == king(b, color)
        rights == b.castle_rights[color]
        listen(moves) ==
            IF moves # {}
            THEN ListenLoop(gen, <<PieceMoves("King", our_king, moves)>>, listener)
            ELSE gen
    IN listen({to \in get_king_moves(our_king) \ our_pieces : king_safe_on(b, to)}
              \cup
              (IF in_check THEN {}
               ELSE UNION {handle_castling(b, rook, FileG, FileF) : rook \in rights.short}
                    \cup
                    UNION {handle_castling(b, rook, FileC, FileD) : rook \in rights.long}))

\* Board::add_all_legals: each generator continues the generation of the
\* one before it. abort_if! returns true after the first generator that
\* returned true: a generator given an aborted generation returns it as it
\* is (ListenLoop passes no batch once gen.ret holds).
add_all_legals(b, in_check, gen, listener) ==
    add_king_legals(b, in_check,
        add_slider_legals(b, "Queen", in_check,
            add_slider_legals(b, "Rook", in_check,
                add_slider_legals(b, "Bishop", in_check,
                    add_knight_legals(b, in_check,
                        add_pawn_legals(b, in_check, gen, listener),
                        listener),
                    listener),
                listener),
            listener),
        listener)

\* Board::try_generate_moves on a board with a king of the side to move:
\* the listener's invocations and the returned bool.
generate_moves(b, listener) ==
    LET popcnt == Cardinality(b.checkers)
    IN IF popcnt \in {0, 1}
       THEN add_all_legals(b, popcnt = 1, GenStart, listener)
       ELSE add_king_legals(b, TRUE, GenStart, listener)

\* Board::try_generate_moves: Err(InvalidBoard) without a king to move
try_generate_moves(b, listener) ==
    IF try_king(b, b.side_to_move) = {}
    THEN [ok |-> FALSE, calls |-> <<>>, ret |-> FALSE]
    ELSE LET ok(gen) == [ok |-> TRUE, calls |-> gen.calls, ret |-> gen.ret]
         IN ok(generate_moves(b, listener))

\* The Moves a caller collects from a generation that is never aborted.
RECURSIVE ExpandCalls(_)
ExpandCalls(calls) ==
    IF calls = <<>> THEN <<>>
    ELSE PieceMovesIter(Head(calls)) \o ExpandCalls(Tail(calls))

GeneratedMoves(b) == ExpandCalls(try_generate_moves(b, {}).calls)

SeqRange(seq) == {seq[i] : i \in DOMAIN seq}

\* ------------------------------------------------------------------- play

U8 == 256

U16 == 65536

\* `halfmove_clock += 1` on a u8 and `fullmove_number += 1` on a u16
U8Inc(n) == (n + 1) % U8

U16Inc(n) == (n + 1) % U16

\* Mutant of PlayCastle: only the right that was used is cleared.
PlayCastleOneRight(b, mv, color) ==
    LET our_back_rank == RelativeTo(RankFirst, color)
        short == FileOf(mv.from) < FileOf(mv.to)
        king_file == IF short THEN FileG ELSE FileC
        rook_file == IF short THEN FileF ELSE FileD
        lift_king == xor_square(b, "King", color, mv.from)
        lift_rook == xor_square(lift_king, "Rook", color, mv.to)
        drop_king == xor_square(lift_rook, "King", color, SquareNew(king_file, our_back_rank))
        drop_rook == xor_square(drop_king, "Rook", color, SquareNew(rook_file, our_back_rank))
    IN set_castle_right(drop_rook, color, short, {})

\* The castle branch of try_play_unchecked.
PlayCastle(b, mv, color) ==
    LET our_back_rank == RelativeTo(RankFirst, color)
        short == FileOf(mv.from) < FileOf(mv.to)
        king_file == IF short THEN FileG ELSE FileC
        rook_file == IF short THEN FileF ELSE FileD
        lift_king == xor_square(b, "King", color, mv.from)
        lift_rook == xor_square(lift_king, "Rook", color, mv.to)
        drop_king == xor_square(lift_rook, "King", color, SquareNew(king_file, our_back_rank))
        drop_rook == xor_square(drop_king, "Rook", color, SquareNew(rook_file, our_back_rank))
    IN set_castle_right(set_castle_right(drop_rook, color, TRUE, {}), color, FALSE, {})

\* Option::unwrap of a Some
Unwrap(option) == CHOOSE value \in option : TRUE

\* Lift the piece, drop it, and take the victim with its castle right.
PlayLiftDrop(b, mv, moved, victim, color) ==
    LET their_back_rank == RelativeTo(RankEighth, color)
        lifted == xor_square(b, moved, color, mv.from)
        dropped == xor_square(lifted, moved, color, mv.to)
        taken == xor_square(dropped, Unwrap(victim), Not(color), mv.to)
        rights == taken.castle_rights[Not(color)]
    IN IF victim = {} THEN dropped
       ELSE IF RankOf(mv.to) # their_back_rank THEN taken
       ELSE IF {FileOf(mv.to)} = rights.short
       THEN set_castle_right(taken, Not(color), TRUE, {})
       ELSE IF {FileOf(mv.to)} = rights.long
       THEN set_castle_right(taken, Not(color), FALSE, {})
       ELSE taken

\* Mutant of PlayPawn: every pawn move that lands on the fourth or fifth
\* rank sets the en passant file.
PlayPawnAnyPush(b, mv, color, their_king) ==
    LET double_move_to == RankBitboard(RankFourth) \cup RankBitboard(RankFifth)
        ep_square == {SquareNew(ep, RelativeTo(RankSixth, color)) : ep \in b.en_passant}
        victim_square == SquareNew(FileOf(mv.to), RelativeTo(RankFifth, color))
    IN IF mv.promotion # {}
       THEN [board |-> xor_square(xor_square(b, "Pawn", color, mv.to),
                                  Unwrap(mv.promotion), color, mv.to),
             new_en_passant |-> {},
             checkers |-> IF mv.promotion = {"Knight"}
                          THEN get_knight_moves(their_king) \cap {mv.to} ELSE {}]
       ELSE [board |-> IF {mv.to} = ep_square
                       THEN xor_square(b, "Pawn", Not(color), victim_square)
                       ELSE b,
             new_en_passant |-> IF mv.to \in double_move_to
                                THEN {FileOf(mv.to)} ELSE {},
             checkers |-> get_pawn_attacks(their_king, Not(color)) \cap {mv.to}]

\* The Piece::Pawn arm of the match: the board, the new en passant file
\* and the pawn or knight that gives check.
PlayPawn(b, mv, color, their_king) ==
    LET double_move_from == RankBitboard(RankSecond) \cup RankBitboard(RankSeventh)
        double_move_to == RankBitboard(RankFourth) \cup RankBitboard(RankFifth)
        ep_square == {SquareNew(ep, RelativeTo(RankSixth, color)) : ep \in b.en_passant}
        victim_square == SquareNew(FileOf(mv.to), RelativeTo(RankFifth, color))
    IN IF mv.promotion # {}
       THEN [board |-> xor_square(xor_square(b, "Pawn", color, mv.to),
                                  Unwrap(mv.promotion), color, mv.to),
             new_en_passant |-> {},
             checkers |-> IF mv.promotion = {"Knight"}
                          THEN get_knight_moves(their_king) \cap {mv.to} ELSE {}]
       ELSE [board |-> IF mv.from \in double_move_from /\ mv.to \in double_move_to
                       THEN b
                       ELSE IF {mv.to} = ep_square
                       THEN xor_square(b, "Pawn", Not(color), victim_square)
                       ELSE b,
             new_en_passant |-> IF mv.from \in double_move_from /\ mv.to \in double_move_to
                                THEN {FileOf(mv.to)} ELSE {},
             checkers |-> get_pawn_attacks(their_king, Not(color)) \cap {mv.to}]

\* The Piece::King and Piece::Rook arms of the match.
\* Mutant of PlayKingOrRook: a rook move from the back rank removes both
\* rights, as a king move does.
PlayKingOrRookBothRights(b, mv, moved, color) ==
    IF moved = "King" \/ (moved = "Rook" /\ RankOf(mv.from) = RelativeTo(RankFirst, color))
    THEN set_castle_right(set_castle_right(b, color, TRUE, {}), color, FALSE, {})
    ELSE b

PlayKingOrRook(b, mv, moved, color) ==
    LET our_back_rank == RelativeTo(RankFirst, color)
        rights == b.castle_rights[color]
    IN IF moved = "King"
       THEN set_castle_right(set_castle_right(b, color, TRUE, {}), color, FALSE, {})
       ELSE IF moved = "Rook" /\ RankOf(mv.from) = our_back_rank
       THEN IF {FileOf(mv.from)} = rights.short
            THEN set_castle_right(b, color, TRUE, {})
            ELSE IF {FileOf(mv.from)} = rights.long
            THEN set_castle_right(b, color, FALSE, {})
            ELSE b
       ELSE b

\* Mutant of PlaySliders: a slider with one piece between it and the king
\* pins nothing.
PlaySlidersNoPins(b, color, their_king) ==
    LET our_attackers == SliderAttackers(b, their_king, color)
        between(square) == get_between_rays(square, their_king) \cap occupied(b)
    IN [b EXCEPT
          !.checkers = @ \cup {sq \in our_attackers : Cardinality(between(sq)) = 0}]

\* The checker and pinned update for the sliders of the side that moved.
PlaySliders(b, color, their_king) ==
    LET our_attackers == SliderAttackers(b, their_king, color)
        between(square) == get_between_rays(square, their_king) \cap occupied(b)
    IN [b EXCEPT
          !.checkers = @ \cup {sq \in our_attackers : Cardinality(between(sq)) = 0},
          !.pinned = @ \cup UNION {between(sq) :
                          sq \in {x \in our_attackers : Cardinality(between(x)) = 1}}]

\* Board::try_play_unchecked, as [board, ok]: ok is FALSE for
\* Err(BoardError::InvalidBoard), and board is the receiver afterwards.
try_play_unchecked(b, mv) ==
    LET cleared == [b EXCEPT !.pinned = {}, !.checkers = {}]
        moved == piece_on(cleared, mv.from)
        victim == piece_on(cleared, mv.to)
        color == cleared.side_to_move
        their_king == try_king(cleared, Not(color))
        is_castle == mv.to \in cleared.colors[color]
        clocked ==
            [cleared EXCEPT
                !.halfmove_clock =
                    IF moved = {"Pawn"} \/ (victim # {} /\ ~is_castle)
                    THEN 0 ELSE U8Inc(@),
                !.fullmove_number = IF color = "Black" THEN U16Inc(@) ELSE @]
        dropped == PlayLiftDrop(clocked, mv, Unwrap(moved), victim, color)
        pawn == PlayPawn(dropped, mv, color, Unwrap(their_king))
        placed ==
            IF is_castle THEN PlayCastle(clocked, mv, color)
            ELSE CASE moved = {"Knight"} ->
                        [dropped EXCEPT !.checkers =
                            @ \cup (get_knight_moves(Unwrap(their_king)) \cap {mv.to})]
                   [] moved = {"Pawn"} ->
                        [pawn.board EXCEPT !.checkers = @ \cup pawn.checkers]
                   [] OTHER -> PlayKingOrRook(dropped, mv, Unwrap(moved), color)
        new_en_passant ==
            IF ~is_castle /\ moved = {"Pawn"} THEN pawn.new_en_passant ELSE {}
        final ==
            toggle_side_to_move(
                PlaySliders(set_en_passant(placed, new_en_passant),
                            color, Unwrap(their_king)))
    IN IF moved = {} \/ their_king = {}
       THEN [board |-> cleared, ok |-> FALSE]
       ELSE [board |-> final, ok |-> TRUE]

\* Board::is_legal: the move is one of the generated moves.
is_legal(b, mv) == mv \in SeqRange(GeneratedMoves(b))

\* Mutant of try_play: the move is played without asking is_legal.
try_playNoLegalCheck(b, mv) ==
    LET ok(played) ==
            [board |-> played.board, ret |-> IF played.ok THEN "true" ELSE "err"]
    IN ok(try_play_unchecked(b, mv))

\* Board::try_play, as [board, ret]: ret is "false", "true" or "err".
try_play(b, mv) ==
    IF ~is_legal(b, mv) THEN [board |-> b, ret |-> "false"]
    ELSE LET ok(played) ==
                 [board |-> played.board, ret |-> IF played.ok THEN "true" ELSE "err"]
         IN ok(try_play_unchecked(b, mv))

\* Board::try_null_move: Some(board) as {board}, None as {}
try_null_move(b) ==
    IF b.checkers = {}
    THEN LET clocked ==
                 [b EXCEPT !.halfmove_clock = U8Inc(@),
                           !.fullmove_number =
                               IF b.side_to_move = "Black" THEN U16Inc(@) ELSE @]
             passed == set_en_passant(toggle_side_to_move(clocked), {})
             color == passed.side_to_move
             our_king == king(passed, color)
             their_attackers == SliderAttackers(passed, our_king, Not(color))
             between(square) == get_between_rays(square, our_king) \cap occupied(passed)
         IN {[passed EXCEPT !.pinned =
                 UNION {between(sq) :
                     sq \in {x \in their_attackers : Cardinality(between(x)) = 1}}]}
    ELSE {}

\* Board::status; generate_moves panics ("Invalid board!") on the Err of
\* try_generate_moves.
status(b) ==
    IF b.halfmove_clock >= 100 THEN "Drawn"
    ELSE LET decide(gen) ==
                 IF ~gen.ok THEN "panic"
                 ELSE IF gen.ret THEN "Ongoing"
                 ELSE IF b.checkers = {} THEN "Drawn"
                 ELSE "Won"
         IN decide(try_generate_moves(b, ListenerFrom(1)))

\* ------------------------------------------------------------------ parse

\* impl Display for Square, as the table of the 64 names in index order
SquareNames ==
    << "a1", "b1", "c1", "d1", "e1", "f1", "g1", "h1",
       "a2", "b2", "c2", "d2", "e2", "f2", "g2", "h2",
       "a3", "b3", "c3", "d3", "e3", "f3", "g3", "h3",
       "a4", "b4", "c4", "d4", "e4", "f4", "g4", "h4",
       "a5", "b5", "c5", "d5", "e5", "f5", "g5", "h5",
       "a6", "b6", "c6", "d6", "e6", "f6", "g6", "h6",
       "a7", "b7", "c7", "d7", "e7", "f7", "g7", "h7",
       "a8", "b8", "c8", "d8", "e8", "f8", "g8", "h8" >>

\* impl FromStr for Square
ParseSquare(name) == (CHOOSE i \in DOMAIN SquareNames : SquareNames[i] = name) - 1

\* The piece of a FEN letter (to_ascii_lowercase, then Piece's char table).
PieceOfChar ==
    [p |-> "Pawn", n |-> "Knight", b |-> "Bishop", r |-> "Rook", q |-> "Queen",
     k |-> "King", P |-> "Pawn", N |-> "Knight", B |-> "Bishop", R |-> "Rook",
     Q |-> "Queen", K |-> "King"]

\* is_ascii_uppercase of the letters a FEN uses
IsAsciiUppercase(c) ==
    c \in {"P", "N", "B", "R", "Q", "K", "A", "C", "D", "E", "F", "G", "H"}

ColorOfChar(c) == IF IsAsciiUppercase(c) THEN "White" ELSE "Black"

\* The file of a Shredder-FEN castling letter.
FileOfChar ==
    [a |-> 0, b |-> 1, c |-> 2, d |-> 3, e |-> 4, f |-> 5, g |-> 6, h |-> 7,
     A |-> 0, B |-> 1, C |-> 2, D |-> 3, E |-> 4, F |-> 5, G |-> 6, H |-> 7]

\* The first field of a FEN: every piece letter is XORed onto its square.
\* `placement` maps a piece letter to the names of its squares.
RECURSIVE ParsePlacement(_, _)
ParsePlacement(b, todo) ==
    IF todo = {} THEN b
    ELSE LET item == CHOOSE x \in todo : TRUE
         IN ParsePlacement(
                xor_square(b, PieceOfChar[item[1]], ColorOfChar(item[1]),
                           ParseSquare(item[2])),
                todo \ {item})

PlacementItems(placement) ==
    UNION {{<<c, name>> : name \in placement[c]} : c \in DOMAIN placement}

\* The castling field: Some(board) as {board}, None as {}.
RECURSIVE ParseCastling(_, _, _)
ParseCastling(b, chars, shredder) ==
    IF chars = <<>> THEN {b}
    ELSE LET c == Head(chars)
             color == ColorOfChar(c)
             kings == b.pieces["King"] \cap b.colors[color]
             king_file == FileOf(NextSquare(kings))
             file == IF shredder THEN FileOfChar[c]
                     ELSE IF c \in {"K", "k"} THEN FileH ELSE FileA
             short == IF shredder THEN king_file < file ELSE c \in {"K", "k"}
             rights == b.castle_rights[color]
             prev == IF short THEN rights.short ELSE rights.long
         IN IF kings = {} \/ (~shredder /\ c \notin {"K", "k", "Q", "q"}) \/ prev # {}
            THEN {}
            ELSE ParseCastling(set_castle_right(b, color, short, {file}),
                               Tail(chars), shredder)

MaxHalfmoveClock == 100

\* Board::from_fen on the fields of a FEN: Ok(board) as {board}, Err as {}
from_fen(fen, shredder) ==
    LET placed == ParsePlacement(BoardEmpty, PlacementItems(fen.placement))
        sided == IF fen.side = "b" THEN toggle_side_to_move(placed) ELSE placed
        castled == ParseCastling(sided, fen.castling, shredder)
        en_passant_rank == RelativeTo(RankThird, Not(sided.side_to_move))
        ep_ok == \A name \in fen.en_passant :
                    RankOf(ParseSquare(name)) = en_passant_rank
        with_ep == set_en_passant(Unwrap(castled),
                                  {FileOf(ParseSquare(name)) : name \in fen.en_passant})
        counted == [with_ep EXCEPT !.halfmove_clock = fen.halfmove,
                                   !.fullmove_number = fen.fullmove]
        color == counted.side_to_move
        both_kings ==
            /\ Cardinality(counted.pieces["King"] \cap counted.colors[color]) = 1
            /\ Cardinality(counted.pieces["King"] \cap counted.colors[Not(color)]) = 1
        board ==
            IF both_kings
            THEN [counted EXCEPT
                     !.checkers = calculate_checkers_and_pins(counted, color)[1],
                     !.pinned = calculate_checkers_and_pins(counted, color)[2]]
            ELSE counted
    IN IF castled = {} \/ ~ep_ok \/ fen.halfmove > MaxHalfmoveClock \/ fen.fullmove = 0
       THEN {}
       ELSE IF ~validity_check(board) THEN {} ELSE {board}

\* A FEN, field by field.
Fen(placement, side, castling, en_passant, halfmove, fullmove) ==
    [placement |-> placement, side |-> side, castling |-> castling,
     en_passant |-> en_passant, halfmove |-> halfmove, fullmove |-> fullmove]

\* ------------------------------------------------------------ start boards

\* 4k2r/8/8/8/8/8/8/R3K3 w Qk - 0 1: castling on both sides
FenCastling ==
    Fen([K |-> {"e1"}, R |-> {"a1"}, k |-> {"e8"}, r |-> {"h8"}],
        "w", <<"Q", "k">>, {}, 0, 1)

\* 4k3/3p4/8/4P3/8/8/8/4K3 b - - 0 1: a double push, then en passant
FenDoublePush ==
    Fen([K |-> {"e1"}, P |-> {"e5"}, k |-> {"e8"}, p |-> {"d7"}],
        "b", <<>>, {}, 0, 1)

\* 8/2p5/3p4/KP5r/1R3p1k/8/4P1P1/8 w - - 0 1: en passant that uncovers a rook
FenPinnedEnPassant ==
    Fen([K |-> {"a5"}, P |-> {"b5", "e2", "g2"}, R |-> {"b4"},
         k |-> {"h4"}, p |-> {"c7", "d6", "f4"}, r |-> {"h5"}],
        "w", <<>>, {}, 0, 1)

\* 4k3/8/8/3pP3/8/5n2/8/4K3 w - d6 0 2: en passant is set while a knight checks
FenEnPassantInCheck ==
    Fen([K |-> {"e1"}, P |-> {"e5"}, k |-> {"e8"}, p |-> {"d5"}, n |-> {"f3"}],
        "w", <<>>, {"d6"}, 0, 2)

\* 4k2r/6P1/8/8/8/8/8/4K3 w k - 0 1: promotions, one capturing the castling rook
FenPromotion ==
    Fen([K |-> {"e1"}, P |-> {"g7"}, k |-> {"e8"}, r |-> {"h8"}],
        "w", <<"k">>, {}, 0, 1)

\* 7k/8/8/8/8/8/1p1K4/R7 b - - 0 1: a knight promotion that gives check
FenUnderpromotion ==
    Fen([K |-> {"d2"}, R |-> {"a1"}, k |-> {"h8"}, p |-> {"b2"}],
        "b", <<>>, {}, 0, 1)

\* 4r2k/8/8/8/8/2b5/3PN3/4K3 w - - 0 1: a pinned knight and a pinned pawn
FenPins ==
    Fen([K |-> {"e1"}, N |-> {"e2"}, P |-> {"d2"},
         k |-> {"h8"}, r |-> {"e8"}, b |-> {"c3"}],
        "w", <<>>, {}, 0, 1)

\* 4k3/8/8/8/4N3/8/8/K3R3 w - - 0 1: discovered and double checks
FenDoubleCheck ==
    Fen([K |-> {"a1"}, R |-> {"e1"}, N |-> {"e4"}, k |-> {"e8"}],
        "w", <<>>, {}, 0, 1)

\* 7k/5Q2/6K1/8/8/8/8/8 b - - 0 1: stalemate
FenStalemate ==
    Fen([K |-> {"g6"}, Q |-> {"f7"}, k |-> {"h8"}], "b", <<>>, {}, 0, 1)

\* 4k3/8/8/8/8/8/8/4K3 w - - 99 60: the fifty-move rule is one move away
FenFiftyMoves ==
    Fen([K |-> {"e1"}, k |-> {"e8"}], "w", <<>>, {}, 99, 60)

\* 6k1/8/8/2PpP3/4N3/2NP4/PP3PPP/R1BQKB1R w KQ d6 0 1: sixteen pieces that
\* all can move, two of them also by en passant
FenManyBatches ==
    Fen([K |-> {"e1"}, Q |-> {"d1"}, R |-> {"a1", "h1"}, B |-> {"c1", "f1"},
         N |-> {"c3", "e4"},
         P |-> {"a2", "b2", "c5", "d3", "e5", "f2", "g2", "h2"},
         k |-> {"g8"}, p |-> {"d5"}],
        "w", <<"K", "Q">>, {"d6"}, 0, 1)

\* 4k3/8/8/3pP3/8/8/5nPP/6RK w - d6 0 2: a smothered mate by the knight
\* while en passant is set
FenSmotheredEnPassant ==
    Fen([K |-> {"h1"}, R |-> {"g1"}, P |-> {"e5", "g2", "h2"},
         k |-> {"e8"}, p |-> {"d5"}, n |-> {"f2"}],
        "w", <<>>, {"d6"}, 0, 2)

\* 4k3/8/8/3pP3/8/5n2/8/4K2R w K d6 0 2: the same with a castle right
FenEnPassantInCheckRights ==
    Fen([K |-> {"e1"}, R |-> {"h1"}, P |-> {"e5"},
         k |-> {"e8"}, p |-> {"d5"}, n |-> {"f3"}],
        "w", <<"K">>, {"d6"}, 0, 2)

\* 4k3/8/8/8/8/8/8/4K3 b - - 0 65535: the largest fullmove number
FenLastFullmove ==
    Fen([K |-> {"e1"}, k |-> {"e8"}], "b", <<>>, {}, 0, U16 - 1)

\* 6k1/8/8/8/8/8/5PPP/3r2K1 w - - 0 1: a back rank mate
FenBackRankMate ==
    Fen([K |-> {"g1"}, P |-> {"f2", "g2", "h2"}, k |-> {"g8"}, r |-> {"d1"}],
        "w", <<>>, {}, 0, 1)

\* 4r2k/8/8/b7/8/8/3BR3/4K3 w - - 0 1: a pinned rook and a pinned bishop
\* that can slide along their pin lines
FenPinnedSliders ==
    Fen([K |-> {"e1"}, R |-> {"e2"}, B |-> {"d2"},
         k |-> {"h8"}, r |-> {"e8"}, b |-> {"a5"}],
        "w", <<>>, {}, 0, 1)

\* 4r2k/8/8/b7/8/6R1/3BR3/4K3 w - - 0 1: a free rook on a higher square
\* than the pinned rook
FenFreeAndPinned ==
    Fen([K |-> {"e1"}, R |-> {"e2", "g3"}, B |-> {"d2"},
         k |-> {"h8"}, r |-> {"e8"}, b |-> {"a5"}],
        "w", <<>>, {}, 0, 1)

StartFens ==
    {FenCastling, FenDoublePush, FenPinnedEnPassant, FenEnPassantInCheck,
     FenPromotion, FenUnderpromotion, FenPins, FenDoubleCheck, FenStalemate,
     FenFiftyMoves, FenManyBatches, FenSmotheredEnPassant,
     FenEnPassantInCheckRights, FenLastFullmove, FenBackRankMate,
     FenPinnedSliders, FenFreeAndPinned}

\* 2rk4/8/8/8/8/8/8/5KR1 w Gc - 0 1 (Shredder-FEN): king and rook swap squares
FenSwapCastle ==
    Fen([K |-> {"f1"}, R |-> {"g1"}, k |-> {"d8"}, r |-> {"c8"}],
        "w", <<"G", "c">>, {}, 0, 1)

\* rk6/8/8/8/8/8/8/6KR w Ha - 0 1 (Shredder-FEN): the king is on its
\* destination (White) or the rook jumps over it (Black)
FenKingStays ==
    Fen([K |-> {"g1"}, R |-> {"h1"}, k |-> {"b8"}, r |-> {"a8"}],
        "w", <<"H", "a">>, {}, 0, 1)

\* 4k3/8/8/8/8/8/8/3RK2R w HD - 0 1 (Shredder-FEN): the long rook is on its
\* destination
FenRookStays ==
    Fen([K |-> {"e1"}, R |-> {"d1", "h1"}, k |-> {"e8"}],
        "w", <<"H", "D">>, {}, 0, 1)

\* 4k3/8/8/8/8/8/8/RKB5 w A - 0 1 (Shredder-FEN): the king's destination c1
\* is neither between king and rook nor the rook's destination, and a
\* bishop stands on it
FenKingDestTaken ==
    Fen([K |-> {"b1"}, R |-> {"a1"}, B |-> {"c1"}, k |-> {"e8"}],
        "w", <<"A">>, {}, 0, 1)

StartShredderFens == {FenSwapCastle, FenKingStays, FenRookStays, FenKingDestTaken}

StartBoards ==
    UNION {from_fen(fen, FALSE) : fen \in StartFens}
        \cup UNION {from_fen(fen, TRUE) : fen \in StartShredderFens}

\* ----------------------------------------------------------- BoardBuilder

\* BoardBuilder::empty
BoardBuilderEmpty ==
    [board |-> [sq \in Squares |-> {}],
     side_to_move |-> "White",
     castle_rights |-> [color \in Colors |-> CastleRightsEMPTY],
     en_passant |-> {},
     halfmove_clock |-> 0,
     fullmove_number |-> 1]

\* BoardBuilder::from_board: None for an invalid board; the conversion of
\* the fullmove number to NonZeroU16 is unwrapped, so on 0 it panics.
from_board(b) ==
    IF ~validity_check(b) THEN [ret |-> "none", builder |-> BoardBuilderEmpty]
    ELSE IF b.fullmove_number = 0 THEN [ret |-> "panic", builder |-> BoardBuilderEmpty]
    ELSE LET en_passant_rank == RelativeTo(RankThird, Not(b.side_to_move))
         IN [ret |-> "some",
             builder |->
                 [board |-> [sq \in Squares |->
                                {<<piece, color>> \in Pieces \X Colors :
                                    sq \in b.colors[color] \cap b.pieces[piece]}],
                  side_to_move |-> b.side_to_move,
                  castle_rights |-> b.castle_rights,
                  en_passant |-> {SquareNew(f, en_passant_rank) : f \in b.en_passant},
                  halfmove_clock |-> b.halfmove_clock,
                  fullmove_number |-> b.fullmove_number]]

\* Board::board_is_valid: the placement part of the validity check.
board_is_valid(b) ==
    /\ \A i, j \in DOMAIN PieceALL :
          i < j => b.pieces[PieceALL[i]] \cap b.pieces[PieceALL[j]] = {}
    /\ b.colors["White"] \cap b.colors["Black"] = {}
    /\ UNION {b.pieces[p] : p \in Pieces} = occupied(b)
    /\ \A color \in Colors :
          LET pieces == b.colors[color]
          IN /\ Cardinality(pieces \cap b.pieces["King"]) = 1
             /\ Cardinality(pieces) <= MaxPieces
             /\ Cardinality(pieces \cap b.pieces["Pawn"]) <= MaxPawns
             /\ pieces \cap b.pieces["Pawn"]
                    \cap RankBitboard(RelativeTo(RankFirst, color)) = {}

\* Board::castle_rights_are_valid
castle_rights_are_valid(b) == \A color \in Colors : CastleRightsValid(b, color)

\* Board::en_passant_is_valid
en_passant_is_valid(b) ==
    LET color == b.side_to_move
    IN \A en_passant \in b.en_passant :
          /\ SquareNew(en_passant, RelativeTo(RankThird, Not(color)))
                \notin occupied(b)
          /\ SquareNew(en_passant, RelativeTo(RankFourth, Not(color)))
                \in (b.colors[Not(color)] \cap b.pieces["Pawn"])

\* Board::halfmove_clock_is_valid
halfmove_clock_is_valid(b) == b.halfmove_clock <= MaxHalfmoveClock

\* Board::fullmove_number_is_valid
fullmove_number_is_valid(b) == b.fullmove_number > 0

\* The loop of BoardBuilder::add_board over Square::ALL, from square sq on.
RECURSIVE AddSquares(_, _, _)
AddSquares(builder, b, sq) ==
    IF sq = SquareNUM THEN b
    ELSE AddSquares(builder,
                    IF builder.board[sq] = {} THEN b
                    ELSE xor_square(b, Unwrap(builder.board[sq])[1],
                                    Unwrap(builder.board[sq])[2], sq),
                    sq + 1)

\* BoardBuilder::add_board
add_board(builder, b) ==
    LET placed == AddSquares(builder, b, 0)
        sided == IF builder.side_to_move # placed.side_to_move
                 THEN toggle_side_to_move(placed) ELSE placed
    IN IF ~board_is_valid(sided) THEN {} ELSE {sided}

\* BoardBuilder::add_castle_rights
add_castle_rights(builder, b) ==
    LET white == set_castle_right(
                     set_castle_right(b, "White", TRUE,
                                      builder.castle_rights["White"].short),
                     "White", FALSE, builder.castle_rights["White"].long)
        black == set_castle_right(
                     set_castle_right(white, "Black", TRUE,
                                      builder.castle_rights["Black"].short),
                     "Black", FALSE, builder.castle_rights["Black"].long)
    IN IF ~castle_rights_are_valid(black) THEN {} ELSE {black}

\* BoardBuilder::add_en_passant
add_en_passant(builder, b) ==
    LET en_passant_rank == RelativeTo(RankThird, Not(b.side_to_move))
        set == IF builder.en_passant = {} THEN b
               ELSE set_en_passant(b, {FileOf(sq) : sq \in builder.en_passant})
    IN IF \E square \in builder.en_passant : RankOf(square) # en_passant_rank
       THEN {}
       ELSE IF ~en_passant_is_valid(set) THEN {} ELSE {set}

\* BoardBuilder::add_halfmove_clock
add_halfmove_clock(builder, b) ==
    IF builder.halfmove_clock > 100 THEN {}
    ELSE LET set == [b EXCEPT !.halfmove_clock = builder.halfmove_clock]
         IN IF ~halfmove_clock_is_valid(set) THEN {} ELSE {set}

\* BoardBuilder::add_fullmove_number
add_fullmove_number(builder, b) ==
    LET set == [b EXCEPT !.fullmove_number = builder.fullmove_number]
    IN IF ~fullmove_number_is_valid(set) THEN {} ELSE {set}

\* BoardBuilder::build: Ok(board), or the error of the first stage that
\* failed.
build(builder) ==
    LET Err(error) == [ret |-> error, board |-> BoardEmpty]
        finish(b) ==
            [ret |-> "ok",
             board |-> [b EXCEPT
                           !.checkers = calculate_checkers_and_pins(b, b.side_to_move)[1],
                           !.pinned = calculate_checkers_and_pins(b, b.side_to_move)[2]]]
        fullmove(added) ==
            IF added = {} THEN Err("InvalidFullmoveNumber") ELSE finish(Unwrap(added))
        halfmove(added) ==
            IF added = {} THEN Err("InvalidHalfMoveClock")
            ELSE fullmove(add_fullmove_number(builder, Unwrap(added)))
        en_passant(added) ==
            IF added = {} THEN Err("InvalidEnPassant")
            ELSE halfmove(add_halfmove_clock(builder, Unwrap(added)))
        castle_rights(added) ==
            IF added = {} THEN Err("InvalidCastlingRights")
            ELSE en_passant(add_en_passant(builder, Unwrap(added)))
        placement(added) ==
            IF added = {} THEN Err("InvalidBoard")
            ELSE castle_rights(add_castle_rights(builder, Unwrap(added)))
    IN placement(add_board(builder, BoardEmpty))

\* ------------------------------------------------------------ state machine

\* The longest sequence of operations on one board.
MaxPly == 2

\* The listeners abort on their first .. MaxAbortAt-th invocation (or never).
MaxAbortAt == 2

\* board, ply and last are a game; iter is a PieceMovesIter under iteration
\* and lookup a sliding attack lookup, each with what was observed of it.
VARIABLES board, ply, last, iter, lookup

vars == <<board, ply, last, iter, lookup>>

\* No iterator and no lookup: the state machine of the game has none.
NoIter == [op |-> "none"]

NoLookup == [op |-> "none"]

NoMove == [from |-> 0, to |-> 0, promotion |-> {}]

\* The last operation: its name, the board before it, its move, what it
\* returned, and for generate_moves the listener and its invocations.
Last(op, pre, mv, ret, calls, listener) ==
    [op |-> op, pre |-> pre, mv |-> mv, ret |-> ret, calls |-> calls,
     listener |-> listener]

\* Moves a caller may try that the generator need not have produced.
ProbeMoves ==
    {[from |-> ParseSquare(f), to |-> ParseSquare(t), promotion |-> {}] :
        f \in {"e1", "e2"}, t \in {"e8", "c3"}}

\* Moves from squares that are empty in the start boards.
EmptyFromMoves ==
    {[from |-> ParseSquare("a3"), to |-> ParseSquare("a4"), promotion |-> {}],
     [from |-> ParseSquare("h6"), to |-> ParseSquare("h7"), promotion |-> {}]}

Init ==
    /\ board \in StartBoards
    /\ ply = 0
    /\ last = Last("new", board, NoMove, "ok", <<>>, 0)
    /\ iter = NoIter
    /\ lookup = NoLookup

\* The board is one that was constructed or played to; after an operation
\* that failed or only looked at the board, the run ends.
InGame ==
    /\ last.op \in {"new", "try_play", "null_move"}
    /\ last.ret \in {"ok", "true"}
    /\ ply < MaxPly

\* board.try_play(mv), which is play(mv) when it returns Ok(true): with a
\* generated move it plays it by try_play_unchecked.
Play ==
    /\ InGame
    /\ \E mv \in SeqRange(GeneratedMoves(board)) \cup ProbeMoves :
          LET result(played) ==
                  /\ board' = played.board
                  /\ last' = Last("try_play", board, mv, played.ret, <<>>, 0)
          IN result(try_play(board, mv))
    /\ ply' = ply + 1
    /\ UNCHANGED <<iter, lookup>>

\* board.try_play_unchecked(mv) with a move from a square the caller did
\* not check.
PlayUnchecked ==
    /\ InGame
    /\ \E mv \in EmptyFromMoves :
          LET result(played) ==
                  /\ board' = played.board
                  /\ last' = Last("try_play_unchecked", board, mv,
                                  IF played.ok THEN "ok" ELSE "err", <<>>, 0)
          IN result(try_play_unchecked(board, mv))
    /\ ply' = ply + 1
    /\ UNCHANGED <<iter, lookup>>

\* board = board.try_null_move(), when it returns Some.
NullMove ==
    /\ InGame
    /\ LET result(passed) ==
               /\ board' = IF passed = {} THEN board ELSE Unwrap(passed)
               /\ last' = Last("null_move", board, NoMove,
                               IF passed = {} THEN "none" ELSE "ok", <<>>, 0)
       IN result(try_null_move(board))
    /\ ply' = ply + 1
    /\ UNCHANGED <<iter, lookup>>

\* board.try_generate_moves(listener), which leaves the board as it is.
GenerateMoves ==
    /\ InGame
    /\ \E k \in 0 .. MaxAbortAt :
          LET result(gen) ==
                  last' = Last("generate_moves", board, NoMove,
                               IF ~gen.ok THEN "err"
                               ELSE IF gen.ret THEN "aborted" ELSE "done",
                               gen.calls, k)
          IN result(try_generate_moves(board, ListenerFrom(k)))
    /\ board' = board
    /\ ply' = ply + 1
    /\ UNCHANGED <<iter, lookup>>

\* board.status(), which leaves the board as it is.
Status ==
    /\ InGame
    /\ last' = Last("status", board, NoMove, status(board), <<>>, 0)
    /\ board' = board
    /\ ply' = ply + 1
    /\ UNCHANGED <<iter, lookup>>

Next == Play \/ PlayUnchecked \/ NullMove \/ GenerateMoves \/ Status

Spec == Init /\ [][Next]_vars

\* ---------------------------------------------- iterating one PieceMoves

\* The target squares tried: on the first rank, in the middle of the board
\* and on the eighth rank.
IterTargets == {ParseSquare(name) : name \in {"a1", "e4", "a8", "b8", "h8"}}

\* The PieceMoves values iterated: any piece, any set of the targets.
IterInputs ==
    {[piece |-> piece, from |-> ParseSquare("b7"), to |-> to] :
        piece \in Pieces, to \in SUBSET IterTargets}

\* What is known of an iterator: the PieceMoves it was made from and the
\* len() of it, the iterator, the Moves yielded so far, what the last
\* next() returned and the iterator's len() after it.
Iter(op, start, it, yielded, item) ==
    [op |-> op, start |-> start, total |-> PieceMovesLen(start), it |-> it,
     yielded |-> yielded, item |-> item, remaining |-> PieceMovesIterLen(it)]

InitIter ==
    /\ board = BoardEmpty
    /\ ply = 0
    /\ last = Last("new", board, NoMove, "ok", <<>>, 0)
    /\ lookup = NoLookup
    /\ \E moves \in IterInputs :
          iter = Iter("into_iter", moves, into_iter(moves), <<>>, {})

\* iter.next(), until it has returned None.
IterNext ==
    /\ iter.op = "into_iter" \/ iter.item # {}
    /\ LET result(next) ==
               iter' = Iter("next", iter.start, next.it,
                            iter.yielded \o (IF next.item = {} THEN <<>>
                                            ELSE <<Unwrap(next.item)>>),
                            next.item)
       IN result(PieceMovesIterNext(iter.it))
    /\ UNCHANGED <<board, ply, last, lookup>>

NextIter == IterNext

SpecIter == InitIter /\ [][NextIter]_vars

\* ------------------------------------------------ sliding attack lookups

\* The most squares in a blocker set that is looked up.
MaxBlockers == 2

\* The blocker sets of at most n squares, anywhere on the board.
RECURSIVE BlockerSets(_)
BlockerSets(n) ==
    IF n = 0 THEN {{}}
    ELSE LET smaller == BlockerSets(n - 1)
         IN smaller \cup {blockers \cup {sq} : blockers \in smaller, sq \in Squares}

\* A lookup: the function, its arguments and what it returned.
Lookup(op, square, blockers, moves) ==
    [op |-> op, square |-> square, blockers |-> blockers, moves |-> moves]

InitSliders ==
    /\ board = BoardEmpty
    /\ ply = 0
    /\ last = Last("new", board, NoMove, "ok", <<>>, 0)
    /\ iter = NoIter
    /\ \E square \in Squares, blockers \in BlockerSets(MaxBlockers) :
          lookup = Lookup("arguments", square, blockers, {})

\* get_rook_moves(square, blockers)
LookupRook ==
    /\ lookup.op = "arguments"
    /\ lookup' = Lookup("get_rook_moves", lookup.square, lookup.blockers,
                        get_rook_moves(lookup.square, lookup.blockers))
    /\ UNCHANGED <<board, ply, last, iter>>

\* get_bishop_moves(square, blockers)
LookupBishop ==
    /\ lookup.op = "arguments"
    /\ lookup' = Lookup("get_bishop_moves", lookup.square, lookup.blockers,
                        get_bishop_moves(lookup.square, lookup.blockers))
    /\ UNCHANGED <<board, ply, last, iter>>

NextSliders == LookupRook \/ LookupBishop

SpecSliders == InitSliders /\ [][NextSliders]_vars

\* ------------------------------------------------------ ray table lookups

InitRays ==
    /\ board = BoardEmpty
    /\ ply = 0
    /\ last = Last("new", board, NoMove, "ok", <<>>, 0)
    /\ iter = NoIter
    /\ \E from \in Squares, to \in Squares :
          lookup = [op |-> "squares", from |-> from, to |-> to, rays |-> {}]

\* get_between_rays(from, to)
LookupBetween ==
    /\ lookup.op = "squares"
    /\ lookup' = [lookup EXCEPT !.op = "get_between_rays",
                                !.rays = get_between_rays(lookup.from, lookup.to)]
    /\ UNCHANGED <<board, ply, last, iter>>

\* get_line_rays(from, to)
LookupLine ==
    /\ lookup.op = "squares"
    /\ lookup' = [lookup EXCEPT !.op = "get_line_rays",
                                !.rays = get_line_rays(lookup.from, lookup.to)]
    /\ UNCHANGED <<board, ply, last, iter>>

NextRays == LookupBetween \/ LookupLine

SpecRays == InitRays /\ [][NextRays]_vars

\* --------------------------------------------- writing the sliding tables

\* Mutant of wrapping_sub: the bits are subtracted without a borrow.
wrapping_subNoBorrow(a, b) == Xor(a, b)

\* BitBoard::wrapping_sub: u64::wrapping_sub of the two boards, the
\* difference modulo 2^64. Bit i of a - b is a_i xor b_i xor the borrow
\* into i; a borrow starts at a bit j below i with b_j = 1 and a_j = 0 and
\* runs up to i unless a bit between them has a_k = 1 and b_k = 0. A
\* borrow out of the top bit is dropped.
wrapping_sub(a, b) ==
    LET borrow(bit) ==
            \E j \in b \ a :
                j < bit /\ \A k \in a \ b : ~(j < k /\ k < bit)
    IN {bit \in Squares : ((bit \in a) # (bit \in b)) # borrow(bit)}

\* The loop of write_moves for one square of `for &square in &Square::ALL`
\* starts with the empty blocker set; nothing is written yet. write_moves
\* is called for the rook and for the bishop.
InitWriteMoves ==
    /\ board = BoardEmpty
    /\ ply = 0
    /\ last = Last("new", board, NoMove, "ok", <<>>, 0)
    /\ iter = NoIter
    /\ \E diagonal \in BOOLEAN, square \in Squares :
          lookup = [op |-> "loop", diagonal |-> diagonal, square |-> square,
                    blockers |-> {}, count |-> 0,
                    entry |-> [index |-> <<>>, moves |-> {}]]

\* One pass through the body of the loop: the moves of the blocker set are
\* stored at its table index, and the blocker set is stepped; `count`
\* counts the passes.
LoopBody(deltas, mask) ==
    LET stepped == wrapping_sub(lookup.blockers, mask) \cap mask
    IN [lookup EXCEPT
           !.op = IF stepped = {} THEN "break" ELSE "loop",
           !.blockers = stepped,
           !.count = @ + 1,
           !.entry = [index |-> <<lookup.square, lookup.blockers \cap mask>>,
                      moves |-> SliderMovesSlow(lookup.square, deltas, lookup.blockers)]]

\* A pass of the loop for the rook table.
WriteRookMoves ==
    /\ lookup.op = "loop" /\ ~lookup.diagonal
    /\ lookup' = LoopBody(ROOK_DELTAS, RookMaskTable[lookup.square])
    /\ UNCHANGED <<board, ply, last, iter>>

\* A pass of the loop for the bishop table.
WriteBishopMoves ==
    /\ lookup.op = "loop" /\ lookup.diagonal
    /\ lookup' = LoopBody(BISHOP_DELTAS, BishopMaskTable[lookup.square])
    /\ UNCHANGED <<board, ply, last, iter>>

NextWriteMoves == WriteRookMoves \/ WriteBishopMoves

\* write_moves is sequential code: a pass that can run does run.
SpecWriteMoves ==
    InitWriteMoves /\ [][NextWriteMoves]_vars /\ WF_vars(NextWriteMoves)

\* ------------------------------------- the generator copy under src/src

\* abort_if! of the copy: `return false` when the expression is true. A
\* generator of the copy stops at the first `true` of the listener, as the
\* one it was copied to does, but what it returns is false.
src_abort_if(gen) == [gen EXCEPT !.ret = FALSE]

\* add_king_legals of the copy: the castle needs the rook not pinned,
\* nothing between king and rook, and the king safe on the squares between
\* it and the H-file (short) or the B-file (long).
src_add_king_legals(b, in_check, gen, listener) ==
    LET color == b.side_to_move
        our_pieces == b.colors[color]
        our_king == king(b, color)
        rights == b.castle_rights[color]
        back_rank == RelativeTo(RankFirst, color)
        castle(rook_file, path_file) ==
            LET rook == SquareNew(rook_file, back_rank)
                path == get_between_rays(our_king, SquareNew(path_file, back_rank))
            IN IF /\ rook \notin b.pinned
                  /\ occupied(b) \cap get_between_rays(our_king, rook) = {}
                  /\ \A square \in path : king_safe_on(b, square)
               THEN {rook} ELSE {}
        listen(moves) ==
            IF moves # {}
            THEN ListenLoop(gen, <<PieceMoves("King", our_king, moves)>>, listener)
            ELSE gen
    IN src_abort_if(
           listen({to \in get_king_moves(our_king) \ our_pieces : king_safe_on(b, to)}
                  \cup
                  (IF in_check THEN {}
                   ELSE UNION {castle(rook, FileH) : rook \in rights.short}
                        \cup
                        UNION {castle(rook, FileB) : rook \in rights.long})))

\* add_all_legals of the copy: every generator returns false, so
\* abort_if! goes on to the next one, and false is returned at the end.
src_add_all_legals(b, in_check, gen, listener) ==
    src_add_king_legals(b, in_check,
        src_abort_if(add_slider_legals(b, "Queen", in_check,
            src_abort_if(add_slider_legals(b, "Rook", in_check,
                src_abort_if(add_slider_legals(b, "Bishop", in_check,
                    src_abort_if(add_knight_legals(b, in_check,
                        src_abort_if(add_pawn_legals(b, in_check, gen, listener)),
                        listener)),
                    listener)),
                listener)),
            listener)),
        listener)

\* Board::generate_moves of the copy
src_generate_moves(b, listener) ==
    LET popcnt == Cardinality(b.checkers)
    IN IF popcnt \in {0, 1}
       THEN src_add_all_legals(b, popcnt = 1, GenStart, listener)
       ELSE src_add_king_legals(b, TRUE, GenStart, listener)

\* Board::status of the copy
src_status(b) ==
    IF src_generate_moves(b, ListenerFrom(1)).ret THEN "Ongoing"
    ELSE IF b.checkers = {} THEN "Stalemate"
    ELSE "Checkmate"

\* board.generate_moves(listener) of the copy with a listener that returns
\* true from its k-th invocation on.
SrcGenerateMoves ==
    /\ last.op = "new"
    /\ \E k \in 0 .. MaxAbortAt :
          LET result(gen) ==
                  last' = Last("generate_moves", board, NoMove,
                               IF gen.ret THEN "true" ELSE "false", gen.calls, k)
          IN result(src_generate_moves(board, ListenerFrom(k)))
    /\ board' = board
    /\ ply' = ply + 1
    /\ UNCHANGED <<iter, lookup>>

\* board.status() of the copy
SrcStatus ==
    /\ last.op = "new"
    /\ last' = Last("status", board, NoMove, src_status(board), <<>>, 0)
    /\ board' = board
    /\ ply' = ply + 1
    /\ UNCHANGED <<iter, lookup>>

NextSrc == SrcGenerateMoves \/ SrcStatus

SpecSrc == Init /\ [][NextSrc]_vars

\* ----------------------------------------------------- the rules of chess

\* The rules the claims measure the generator against, written on file and
\* rank coordinates without the attack tables.
Sign(n) == IF n > 0 THEN 1 ELSE IF n < 0 THEN -1 ELSE 0

Max(m, n) == IF m >= n THEN m ELSE n

FileDist(a, b) == Abs(FileOf(a) - FileOf(b))

RankDist(a, b) == Abs(RankOf(a) - RankOf(b))

OnLine(a, b) == a # b /\ (FileOf(a) = FileOf(b) \/ RankOf(a) = RankOf(b))

OnDiagonal(a, b) == a # b /\ FileDist(a, b) = RankDist(a, b)

\* The squares strictly between two squares of one line or diagonal.
Span(a, b) ==
    LET df == Sign(FileOf(b) - FileOf(a))
        dr == Sign(RankOf(b) - RankOf(a))
        n == Max(FileDist(a, b), RankDist(a, b))
    IN {SquareNew(FileOf(a) + k * df, RankOf(a) + k * dr) : k \in 1 .. (n - 1)}

Forward(color) == IF color = "White" THEN 1 ELSE -1

\* The piece of `color` on `from` attacks `to` when `occ` is occupied.
RuleAttacks(piece, color, from, to, occ) ==
    CASE piece = "Pawn" ->
            RankOf(to) = RankOf(from) + Forward(color) /\ FileDist(from, to) = 1
      [] piece = "Knight" ->
            {FileDist(from, to), RankDist(from, to)} = {1, 2}
      [] piece = "King" ->
            from # to /\ FileDist(from, to) <= 1 /\ RankDist(from, to) <= 1
      [] piece = "Bishop" ->
            OnDiagonal(from, to) /\ Span(from, to) \cap occ = {}
      [] piece = "Rook" ->
            OnLine(from, to) /\ Span(from, to) \cap occ = {}
      [] piece = "Queen" ->
            (OnDiagonal(from, to) \/ OnLine(from, to)) /\ Span(from, to) \cap occ = {}

\* Some piece of `by` attacks `sq` when `occ` is occupied.
RuleAttacked(b, sq, by, occ) ==
    \E from \in b.colors[by] \ {sq} :
        \E piece \in piece_on(b, from) : RuleAttacks(piece, by, from, sq, occ)

\* The king of `color` is attacked.
RuleInCheck(b, color) ==
    \E k \in b.pieces["King"] \cap b.colors[color] :
        RuleAttacked(b, k, Not(color), occupied(b))

\* Castling with the rook on mv.to (standard and Chess960): the right is
\* there, every square the king and the rook cross or land on is vacant but
\* for the two of them, the king is not in check and crosses or lands on no
\* attacked square.
RuleCastle(b, mv) ==
    LET color == b.side_to_move
        back == RelativeTo(RankFirst, color)
        rights == b.castle_rights[color]
        short == {FileOf(mv.to)} = rights.short
        long == {FileOf(mv.to)} = rights.long
        king_dest == SquareNew(IF short THEN FileG ELSE FileC, back)
        rook_dest == SquareNew(IF short THEN FileF ELSE FileD, back)
        king_path == (Span(mv.from, king_dest) \cup {king_dest}) \ {mv.from}
        rook_path == (Span(mv.to, rook_dest) \cup {rook_dest}) \ {mv.to}
        others == occupied(b) \ {mv.from, mv.to}
    IN /\ mv.promotion = {}
       /\ mv.from \in b.pieces["King"] /\ RankOf(mv.from) = back
       /\ mv.to \in b.pieces["Rook"] \cap b.colors[color] /\ RankOf(mv.to) = back
       /\ short \/ long
       /\ (king_path \cup rook_path) \cap others = {}
       /\ \A sq \in king_path \cup {mv.from} :
             ~RuleAttacked(b, sq, Not(color), occupied(b) \ {mv.from})

\* A pawn move: push, double push, capture or en passant, promoting on
\* the last rank and only there.
RulePawn(b, mv) ==
    LET color == b.side_to_move
        ahead == RankOf(mv.to) - RankOf(mv.from)
        ep_squares ==
            {SquareNew(f, RelativeTo(RankSixth, color)) : f \in b.en_passant}
    IN /\ \/ /\ FileOf(mv.to) = FileOf(mv.from)
             /\ ahead = Forward(color)
             /\ mv.to \notin occupied(b)
          \/ /\ FileOf(mv.to) = FileOf(mv.from)
             /\ ahead = 2 * Forward(color)
             /\ RankOf(mv.from) = RelativeTo(RankSecond, color)
             /\ (Span(mv.from, mv.to) \cup {mv.to}) \cap occupied(b) = {}
          \/ /\ FileDist(mv.from, mv.to) = 1
             /\ ahead = Forward(color)
             /\ mv.to \in b.colors[Not(color)] \cup (ep_squares \ occupied(b))
       /\ IF RankOf(mv.to) = RelativeTo(RankEighth, color)
          THEN mv.promotion \in {{"Knight"}, {"Bishop"}, {"Rook"}, {"Queen"}}
          ELSE mv.promotion = {}

\* The move follows the movement rule of the piece it moves.
RuleMove(b, mv) ==
    LET color == b.side_to_move
        moved == piece_on(b, mv.from)
    IN /\ mv.from \in b.colors[color]
       /\ moved # {}
       /\ IF mv.to \in b.colors[color] THEN RuleCastle(b, mv)
          ELSE IF moved = {"Pawn"} THEN RulePawn(b, mv)
          ELSE /\ mv.promotion = {}
               /\ RuleAttacks(Unwrap(moved), color, mv.from, mv.to, occupied(b))

\* The move is legal: it follows the rule and, once played, the king of
\* the side that moved is not attacked.
RuleLegal(b, mv) ==
    /\ RuleMove(b, mv)
    /\ ~RuleInCheck(try_play_unchecked(b, mv).board, b.side_to_move)

\* What a move from `from` to `to` can promote to: one of the four pieces
\* for a pawn that reaches the last rank, nothing otherwise.
Promotions(b, from, to) ==
    IF /\ from \in b.pieces["Pawn"]
       /\ RankOf(to) = RelativeTo(RankEighth, b.side_to_move)
    THEN {{"Knight"}, {"Bishop"}, {"Rook"}, {"Queen"}}
    ELSE {{}}

\* Every legal move of the side to move.
RuleLegalMoves(b) ==
    UNION {
        {mv \in {[from |-> from, to |-> to, promotion |-> promotion] :
                    promotion \in Promotions(b, from, to)} : RuleLegal(b, mv)} :
        <<from, to>> \in b.colors[b.side_to_move] \X Squares}

NoDuplicates(seq) == Cardinality(SeqRange(seq)) = Len(seq)

\* ----------------------------------------------------------------- render

\* The FEN letter of a piece: upper case for White.
PieceChar ==
    [White |-> [Pawn |-> "P", Knight |-> "N", Bishop |-> "B", Rook |-> "R",
                Queen |-> "Q", King |-> "K"],
     Black |-> [Pawn |-> "p", Knight |-> "n", Bishop |-> "b", Rook |-> "r",
                Queen |-> "q", King |-> "k"]]

\* The Shredder-FEN letter of a castle right: the rook's file.
FileChar ==
    [White |-> <<"A", "B", "C", "D", "E", "F", "G", "H">>,
     Black |-> <<"a", "b", "c", "d", "e", "f", "g", "h">>]

\* impl Display for Board, alternate form (Shredder-FEN), field by field:
\* the square's letter comes from piece_on and color_on.
RenderPlacement(b) ==
    {<<PieceChar[Unwrap(color_on(b, sq))][Unwrap(piece_on(b, sq))], SquareNames[sq + 1]>> :
        sq \in {x \in Squares : piece_on(b, x) # {} /\ color_on(b, x) # {}}}

RenderCastling(b) ==
    LET letters(color) ==
            [i \in 1 .. Cardinality(b.castle_rights[color].short) |->
                FileChar[color][Unwrap(b.castle_rights[color].short) + 1]]
            \o
            [i \in 1 .. Cardinality(b.castle_rights[color].long) |->
                FileChar[color][Unwrap(b.castle_rights[color].long) + 1]]
    IN letters("White") \o letters("Black")

RenderEnPassant(b) ==
    {SquareNames[SquareNew(f, RelativeTo(RankThird, Not(b.side_to_move))) + 1] :
        f \in b.en_passant}

\* The ZobristBoard that parsing the rendered board builds from scratch.
ParsedFromScratch(b) ==
    LET placed == ParsePlacement(BoardEmpty, RenderPlacement(b))
        sided == IF b.side_to_move = "Black" THEN toggle_side_to_move(placed) ELSE placed
        castled == ParseCastling(sided, RenderCastling(b), TRUE)
    IN {set_en_passant(c, {FileOf(ParseSquare(name)) : name \in RenderEnPassant(b)}) :
           c \in castled}

\* ----------------------------------------------------------------- claims

\* C1: on a board that passes validity_check, every Move of the PieceMoves
\* that generate_moves passes to the listener is legal.
GeneratorSound ==
    (last.op = "generate_moves" /\ validity_check(last.pre)) =>
        \A mv \in SeqRange(ExpandCalls(last.calls)) : RuleLegal(last.pre, mv)

\* C2: on a board that passes validity_check, every legal move of the side
\* to move is among the Moves of one generate_moves call whose listener
\* never returns true, and no Move is there twice.
GeneratorComplete ==
    (last.op = "generate_moves" /\ last.listener = 0 /\ validity_check(last.pre)) =>
        LET generated == ExpandCalls(last.calls)
        IN /\ RuleLegalMoves(last.pre) \subseteq SeqRange(generated)
           /\ NoDuplicates(generated)

\* The board was reached from a start board by generated moves and null
\* moves only: the other operations end the behaviour.
ReachedByPlay == last.op \in {"new", "try_play", "null_move"}

\* The last operation played a generated move on a board that passed
\* validity_check.
PlayedOnValid ==
    last.op = "try_play" /\ last.ret = "true" /\ validity_check(last.pre)

\* C3: after a generated move is played on a board that passes
\* validity_check, the stored checkers and pinned are the pair that
\* calculate_checkers_and_pins computes for the new side to move.
CheckersAndPinsRecomputed ==
    PlayedOnValid =>
        /\ try_king(board, board.side_to_move) # {}
        /\ <<board.checkers, board.pinned>> =
              calculate_checkers_and_pins(board, board.side_to_move)

\* C3 witness: a played move gave check and left a piece of the new side
\* to move pinned.
CheckersAndPinsWitness ==
    /\ PlayedOnValid
    /\ board.checkers # {}
    /\ board.pinned # {}

\* The hash of the ZobristBoard assembled from empty with the placement,
\* side to move, castle rights and en passant file of b, by the methods the
\* parser and the builder assemble a board with. Unlike the FEN parse it
\* exists for a board without a king too.
ScratchHash(b) ==
    LET builder ==
            [board |-> [sq \in Squares |->
                           {<<piece, color>> \in Pieces \X Colors :
                               sq \in b.colors[color] \cap b.pieces[piece]}]]
        placed == AddSquares(builder, BoardEmpty, 0)
        sided == IF b.side_to_move = "Black" THEN toggle_side_to_move(placed)
                 ELSE placed
        white == set_castle_right(
                     set_castle_right(sided, "White", TRUE,
                                      b.castle_rights["White"].short),
                     "White", FALSE, b.castle_rights["White"].long)
        black == set_castle_right(
                     set_castle_right(white, "Black", TRUE,
                                      b.castle_rights["Black"].short),
                     "Black", FALSE, b.castle_rights["Black"].long)
    IN set_en_passant(black, b.en_passant).hash

\* C4: the hash maintained through play and null moves is the hash of the
\* board parsed from scratch with the same placement, side to move, castle
\* rights and en passant file.
HashLaw ==
    (last.op \in {"try_play", "null_move"} /\ last.ret \in {"true", "ok"}) =>
        LET compare(parsed) ==
                IF parsed # {}
                THEN \A scratch \in parsed : board.hash = scratch.hash
                ELSE /\ \E color \in Colors :
                           board.pieces["King"] \cap board.colors[color] = {}
                     /\ board.hash = ScratchHash(board)
        IN compare(ParsedFromScratch(board))

\* C4 witness: a castle, en passant capture or promotion was played (the
\* moves that toggle more than two keys of the placement).
HashLawWitness ==
    /\ PlayedOnValid
    /\ last.pre.castle_rights # board.castle_rights
    /\ last.pre.en_passant # {}

\* C5: in every position reached from a valid board by generated moves the
\* piece bitboards are pairwise disjoint, the colour bitboards are disjoint
\* and cover the pieces, each side has one king, no pawn is on rank 1 or 8,
\* and each side has at most 16 pieces and 8 pawns.
PlacementPreserved ==
    ReachedByPlay =>
    /\ \A p, q \in Pieces : p # q => board.pieces[p] \cap board.pieces[q] = {}
    /\ board.colors["White"] \cap board.colors["Black"] = {}
    /\ UNION {board.pieces[p] : p \in Pieces} = occupied(board)
    /\ \A color \in Colors :
          /\ Cardinality(board.pieces["King"] \cap board.colors[color]) = 1
          /\ Cardinality(board.colors[color]) <= MaxPieces
          /\ Cardinality(board.pieces["Pawn"] \cap board.colors[color]) <= MaxPawns
    /\ board.pieces["Pawn"] \cap (RankBitboard(RankFirst) \cup RankBitboard(RankEighth)) = {}

\* C6: the halfmove clock never exceeds 100.
HalfmoveClockBounded ==
    ReachedByPlay => board.halfmove_clock <= MaxHalfmoveClock

\* C7: try_play_unchecked with a move from an empty square returns
\* Err(InvalidBoard) and leaves every field of the board as it was.
UncheckedErrLeavesBoard ==
    (last.op = "try_play_unchecked" /\ piece_on(last.pre, last.mv.from) = {}) =>
        /\ last.ret = "err"
        /\ board = last.pre

EarlyAbort ==
    (last.op = "generate_moves" /\ last.ret # "err") =>
        LET listener == ListenerFrom(last.listener)
            n == Len(last.calls)
        IN /\ \A i \in 1 .. n : i \in listener => (i = n /\ last.ret = "aborted")
           /\ (\A i \in 1 .. n : i \notin listener) => last.ret = "done"

\* C9 witness: the listener aborted on its second invocation although the
\* generation had more PieceMoves to pass.
EarlyAbortWitness ==
    /\ last.op = "generate_moves"
    /\ last.listener = 2
    /\ last.ret = "aborted"
    /\ Len(last.calls) = 2
    /\ Len(try_generate_moves(last.pre, {}).calls) > 2

MaxListenerCalls == 18

\* C10: on a valid board one generate_moves call invokes the listener at
\* most 18 times.
ListenerBound ==
    (last.op = "generate_moves" /\ validity_check(last.pre)) =>
        Len(last.calls) <= MaxListenerCalls

\* C10 witness: a generation that invoked the listener 18 times.
ListenerBoundWitness ==
    /\ last.op = "generate_moves"
    /\ validity_check(last.pre)
    /\ last.listener = 0
    /\ Len(last.calls) = MaxListenerCalls

\* C2 witness: a generation that ran to its end on a valid board reached
\* by a double push, where an en passant capture is legal and generated.
GeneratorCompleteWitness ==
    /\ last.op = "generate_moves"
    /\ last.listener = 0
    /\ validity_check(last.pre)
    /\ ply = 2
    /\ \E mv \in RuleLegalMoves(last.pre) :
          /\ mv.from \in last.pre.pieces["Pawn"]
          /\ FileOf(mv.from) # FileOf(mv.to)
          /\ mv.to \notin occupied(last.pre)
          /\ mv \in SeqRange(ExpandCalls(last.calls))

\* C11: every PieceMoves that generate_moves passes to the listener has a
\* `to` bitboard that is not empty, on every board and from every loop.
NonEmptyBatches ==
    last.op = "generate_moves" =>
        \A i \in DOMAIN last.calls : last.calls[i].to # {}

\* A generation with a batch of a pinned piece and the batch of the king,
\* on a board where another pinned piece has no move at all.
NonEmptyBatchesWitness ==
    /\ last.op = "generate_moves" /\ last.listener = 0
    /\ \E i, j \in DOMAIN last.calls :
          /\ last.calls[i].from \in last.pre.pinned
          /\ last.calls[j].piece = "King"
    /\ \E sq \in last.pre.pinned :
          \A i \in DOMAIN last.calls : last.calls[i].from # sq

\* C12: status() is Drawn when the halfmove clock has reached 100; else
\* Ongoing exactly when the side to move has a legal move; else Drawn without
\* a checker (stalemate) and Won with one (the side to move is checkmated).
StatusLaw ==
    (last.op = "status" /\ validity_check(last.pre)) =>
        last.ret = IF last.pre.halfmove_clock >= 100 THEN "Drawn"
                   ELSE IF RuleLegalMoves(last.pre) # {} THEN "Ongoing"
                   ELSE IF last.pre.checkers = {} THEN "Drawn"
                   ELSE "Won"

\* C13: on a board that passes validity_check, try_null_move returns None
\* exactly when there is a checker; otherwise the new board has the
\* receiver's placement, castle rights and (empty) checkers, the other side
\* to move, no en passant file, the pins computed from scratch for the new
\* side to move, the halfmove clock plus one, and the fullmove number plus
\* one exactly when Black passed.
NullMoveLaw ==
    (last.op = "null_move" /\ validity_check(last.pre)) =>
        IF last.pre.checkers # {}
        THEN last.ret = "none" /\ board = last.pre
        ELSE /\ last.ret = "ok"
             /\ board.pieces = last.pre.pieces
             /\ board.colors = last.pre.colors
             /\ board.castle_rights = last.pre.castle_rights
             /\ board.checkers = last.pre.checkers
             /\ board.side_to_move = Not(last.pre.side_to_move)
             /\ board.en_passant = {}
             /\ board.pinned =
                    calculate_checkers_and_pins(board, board.side_to_move)[2]
             /\ board.halfmove_clock = last.pre.halfmove_clock + 1
             /\ board.fullmove_number =
                    last.pre.fullmove_number
                        + (IF last.pre.side_to_move = "Black" THEN 1 ELSE 0)

\* The move played is a castle: the king's `to` square holds a piece of
\* the mover.
CastlePlayed ==
    /\ PlayedOnValid
    /\ last.mv.to \in last.pre.colors[last.pre.side_to_move]

\* C14: after a castle the mover's king is on the G-file (short) or the
\* C-file (long) and the rook on the F-file or the D-file of the mover's
\* back rank, the squares the two left are empty unless one of them landed
\* there, every other square is as it was, the mover has no castle right
\* and the opponent's rights are as they were.
CastleLaw ==
    CastlePlayed =>
        LET color == last.pre.side_to_move
            back == RelativeTo(RankFirst, color)
            short == FileOf(last.mv.from) < FileOf(last.mv.to)
            king_dest == SquareNew(IF short THEN FileG ELSE FileC, back)
            rook_dest == SquareNew(IF short THEN FileF ELSE FileD, back)
        IN /\ \A sq \in Squares :
                 <<piece_on(board, sq), color_on(board, sq)>> =
                     IF sq = king_dest THEN <<{"King"}, {color}>>
                     ELSE IF sq = rook_dest THEN <<{"Rook"}, {color}>>
                     ELSE IF sq \in {last.mv.from, last.mv.to} THEN <<{}, {}>>
                     ELSE <<piece_on(last.pre, sq), color_on(last.pre, sq)>>
           /\ \A piece \in Pieces :
                 board.pieces[piece] \subseteq occupied(board)
           /\ board.castle_rights[color] = CastleRightsEMPTY
           /\ board.castle_rights[Not(color)] = last.pre.castle_rights[Not(color)]

\* A castle in which the king and the rook swap squares, by a side that
\* had a castle right.
CastleLawWitness ==
    /\ CastlePlayed
    /\ last.mv.from = SquareNew(FileF, RankFirst)
    /\ last.mv.to = SquareNew(FileG, RankFirst)
    /\ last.pre.castle_rights["Black"] # CastleRightsEMPTY

\* On board b, mv moves a pawn diagonally onto an empty square: an en
\* passant capture.
IsEnPassantCapture(b, mv) ==
    /\ mv.from \in b.pieces["Pawn"]
    /\ FileOf(mv.from) # FileOf(mv.to)
    /\ mv.to \notin occupied(b)

\* On board b, mv moves a pawn from its second to its fourth rank.
IsDoublePush(b, mv) ==
    /\ mv.from \in b.pieces["Pawn"]
    /\ RankOf(mv.from) = RelativeTo(RankSecond, b.side_to_move)
    /\ RankOf(mv.to) = RelativeTo(RankFourth, b.side_to_move)

\* C15: after a move, en_passant() is Some(f) exactly when the move was a
\* pawn double push landing on file f; every legal en passant capture is
\* among the generated Moves exactly once; and after an en passant capture
\* the pawn that had made the double push is gone, the capturing pawn is
\* on the en passant square and en_passant() is None.
EnPassantLifeCycle ==
    /\ PlayedOnValid =>
          board.en_passant =
              IF IsDoublePush(last.pre, last.mv) THEN {FileOf(last.mv.to)} ELSE {}
    /\ (/\ last.op = "generate_moves" /\ last.listener = 0
        /\ validity_check(last.pre) /\ last.pre.en_passant # {}) =>
          LET generated == ExpandCalls(last.calls)
          IN \A mv \in RuleLegalMoves(last.pre) :
                IsEnPassantCapture(last.pre, mv) =>
                    Cardinality({i \in DOMAIN generated : generated[i] = mv}) = 1
    /\ (PlayedOnValid /\ IsEnPassantCapture(last.pre, last.mv)) =>
          LET color == last.pre.side_to_move
              victim == SquareNew(FileOf(last.mv.to), RankOf(last.mv.from))
          IN /\ piece_on(board, victim) = {} /\ color_on(board, victim) = {}
             /\ victim \in last.pre.pieces["Pawn"] \cap last.pre.colors[Not(color)]
             /\ piece_on(board, last.mv.to) = {"Pawn"}
             /\ color_on(board, last.mv.to) = {color}
             /\ piece_on(board, last.mv.from) = {}
             /\ FileOf(last.mv.to) \in last.pre.en_passant
             /\ RankOf(last.mv.to) = RelativeTo(RankSixth, color)
             /\ board.en_passant = {}

\* An en passant capture played right after the double push that allowed it.
EnPassantLifeCycleWitness ==
    /\ PlayedOnValid /\ ply = 2
    /\ IsEnPassantCapture(last.pre, last.mv)
    /\ last.pre.en_passant = {FileOf(last.mv.to)}

\* The castle right of `color` for the rook on `file` is backed by the
\* board: the king of `color` is on its back rank, a rook of `color` is on
\* the file on that rank, and the file is on the right side of the king.
RightHolds(b, color, file, short) ==
    LET back == RelativeTo(RankFirst, color)
        kings == b.pieces["King"] \cap b.colors[color]
    IN /\ kings # {}
       /\ \A k \in kings :
             /\ RankOf(k) = back
             /\ IF short THEN file > FileOf(k) ELSE file < FileOf(k)
       /\ SquareNew(file, back) \in b.pieces["Rook"] \cap b.colors[color]

\* C16: in every position reached from a valid board by generated moves,
\* a castle right that is Some(f) has its king on the back rank, its rook
\* on (f, back rank) and f on the right side of the king.
CastleRightsPreserved ==
    ReachedByPlay =>
        \A color \in Colors :
            /\ \A f \in board.castle_rights[color].short :
                  RightHolds(board, color, f, TRUE)
            /\ \A f \in board.castle_rights[color].long :
                  RightHolds(board, color, f, FALSE)

\* C17: for every valid board P, hash_without_ep() is the hash() of the
\* board that equals P except that its en passant file is None, and it is
\* P's hash() when P has no en passant file.
HashWithoutEpLaw ==
    (ReachedByPlay /\ validity_check(board)) =>
        /\ board.en_passant # {} =>
              LET compare(cleared) ==
                      /\ cleared # {}
                      /\ \A c \in cleared :
                            /\ c.en_passant = {}
                            /\ c.hash = hash_without_ep(board)
              IN compare(ParsedFromScratch([board EXCEPT !.en_passant = {}]))
        /\ hash_without_ep(board) = set_en_passant(board, {}).hash
        /\ board.en_passant = {} => hash_without_ep(board) = board.hash

\* A valid board with an en passant file, reached by a double push.
HashWithoutEpWitness ==
    /\ PlayedOnValid /\ validity_check(board)
    /\ board.en_passant # {}
    /\ hash_without_ep(board) # board.hash

\* The number of Moves the claim gives the target square sq of a PieceMoves.
MovesOf(moves, sq) ==
    IF moves.piece = "Pawn" /\ RankOf(sq) \in {RankFirst, RankEighth} THEN 4 ELSE 1

\* The number of Moves the claim has before those of the target square sq.
MovesBefore(moves, sq) ==
    Cardinality({t \in moves.to : t < sq})
        + 3 * Cardinality({t \in moves.to : t < sq /\ MovesOf(moves, t) = 4})

\* The Moves the claim asks of a PieceMoves: its target squares in
\* ascending order, each once with promotion None, or four times with
\* Knight, Bishop, Rook, Queen for a pawn reaching rank 1 or rank 8.
ExpectedMoves(moves) ==
    LET total == Cardinality(moves.to)
                     + 3 * Cardinality({t \in moves.to : MovesOf(moves, t) = 4})
    IN [i \in 1 .. total |->
           LET sq == CHOOSE t \in moves.to :
                        /\ MovesBefore(moves, t) < i
                        /\ i <= MovesBefore(moves, t) + MovesOf(moves, t)
           IN [from |-> moves.from, to |-> sq,
               promotion |->
                   IF MovesOf(moves, sq) = 4
                   THEN {<<"Knight", "Bishop", "Rook", "Queen">>[i - MovesBefore(moves, sq)]}
                   ELSE {}]]

\* C18: iterating a PieceMoves yields one Move per target square in
\* ascending order with promotion None, and four Moves (Knight, Bishop,
\* Rook, Queen) for a pawn's target on rank 1 or rank 8; PieceMoves::len()
\* is the number of Moves yielded, and after every next() the iterator's
\* len() is the number of Moves still to be yielded.
PieceMovesExpansion ==
    iter.op # "none" =>
        LET expected == ExpectedMoves(iter.start)
        IN /\ iter.total = Len(expected)
           /\ Len(iter.yielded) <= Len(expected)
           /\ iter.yielded = SubSeq(expected, 1, Len(iter.yielded))
           /\ iter.remaining = Len(expected) - Len(iter.yielded)
           /\ (iter.op = "next" /\ iter.item = {}) => iter.yielded = expected
           /\ (iter.op = "next" /\ iter.item # {}) =>
                  iter.item = {expected[Len(iter.yielded)]}
           /\ PieceMovesIter(iter.start) = expected

\* A pawn batch with targets on rank 1, in the middle and on rank 8,
\* between the second and the third promotion of its last square.
PieceMovesExpansionWitness ==
    /\ iter.op = "next" /\ iter.start.piece = "Pawn"
    /\ iter.start.to = IterTargets
    /\ iter.it.promotion = 2 /\ iter.it.moves.to = {ParseSquare("h8")}
    /\ iter.remaining = 2 /\ Len(iter.yielded) = 15

\* C19: for every board that passes validity_check, parsed or reached
\* through play, BoardBuilder::from_board is Some(builder) and
\* builder.build() is Ok of an equal board (hash, pinned, checkers,
\* halfmove clock and fullmove number included).
BuilderRoundTrip ==
    (ReachedByPlay /\ validity_check(board)) =>
        LET made == from_board(board)
        IN /\ made.ret = "some"
           /\ build(made.builder) = [ret |-> "ok", board |-> board]

\* The squares the claim gives a slider on sq: those of its lines
\* (diagonals) with no blocker strictly between sq and them, which is each
\* direction walked up to and including the first blocker.
RayWalk(sq, blockers, diagonal) ==
    {to \in Squares :
        /\ IF diagonal THEN OnDiagonal(sq, to) ELSE OnLine(sq, to)
        /\ Span(sq, to) \cap blockers = {}}

Aligned(a, b) == OnLine(a, b) \/ OnDiagonal(a, b)

\* The rank, file or diagonal through two aligned squares, from edge to
\* edge: the squares reached from a by any number of steps towards b or
\* away from it.
WholeLine(a, b) ==
    LET df == Sign(FileOf(b) - FileOf(a))
        dr == Sign(RankOf(b) - RankOf(a))
    IN {sq \in Squares :
           \E k \in -7 .. 7 :
               /\ FileOf(sq) = FileOf(a) + k * df
               /\ RankOf(sq) = RankOf(a) + k * dr}

\* C21: get_between_rays(a, b) is the set of squares strictly between a
\* and b when they share a rank, file or diagonal and empty otherwise, so
\* it is symmetric and holds neither a nor b; get_line_rays(a, b) is the
\* whole rank, file or diagonal through both, a and b included, when
\* a # b are aligned, and empty otherwise.
RayTables ==
    /\ lookup.op = "get_between_rays" =>
          /\ lookup.rays =
                 IF Aligned(lookup.from, lookup.to)
                 THEN Span(lookup.from, lookup.to) ELSE {}
          /\ lookup.rays = get_between_rays(lookup.to, lookup.from)
          /\ lookup.from \notin lookup.rays /\ lookup.to \notin lookup.rays
    /\ lookup.op = "get_line_rays" =>
          /\ lookup.rays =
                 IF Aligned(lookup.from, lookup.to)
                 THEN WholeLine(lookup.from, lookup.to) ELSE {}
          /\ Aligned(lookup.from, lookup.to) =>
                 {lookup.from, lookup.to} \subseteq lookup.rays

\* The squares between b4 and g4 (the example of the documentation) were
\* looked up.
RayTablesWitness ==
    /\ lookup.op = "get_between_rays"
    /\ lookup.from = ParseSquare("b4") /\ lookup.to = ParseSquare("g4")
    /\ lookup.rays = {ParseSquare(name) : name \in {"c4", "d4", "e4", "f4"}}

\* C22: try_play_unchecked sets halfmove_clock to 0 iff the moved piece is
\* a pawn or the move captures an enemy piece on `to` (castling, where `to`
\* holds the mover's own rook, is no capture) and otherwise adds exactly 1
\* to it; fullmove_number grows by exactly 1 iff the mover is Black and is
\* unchanged otherwise.
ClockUpdate ==
    PlayedOnValid =>
        LET pre == last.pre
            color == pre.side_to_move
            resets ==
                \/ piece_on(pre, last.mv.from) = {"Pawn"}
                \/ /\ piece_on(pre, last.mv.to) # {}
                   /\ color_on(pre, last.mv.to) = {Not(color)}
        IN /\ board.halfmove_clock =
                  IF resets THEN 0 ELSE pre.halfmove_clock + 1
           /\ board.fullmove_number =
                  IF color = "Black" THEN pre.fullmove_number + 1
                  ELSE pre.fullmove_number

\* The condition of the claim for the castle right of the side to move
\* with the rook on rook_file: the rook is not pinned, nothing but king
\* and rook stands on "must be empty", and every square of "must be safe"
\* is safe for the king. with_king_dest adds the king's destination to
\* "must be empty".
CastleCondition(b, rook_file, short, with_king_dest) ==
    LET color == b.side_to_move
        back == RelativeTo(RankFirst, color)
        K == king(b, color)
        R == SquareNew(rook_file, back)
        K_dest == SquareNew(IF short THEN FileG ELSE FileC, back)
        R_dest == SquareNew(IF short THEN FileF ELSE FileD, back)
        must_be_safe == {K_dest} \cup Span(K, K_dest)
        must_be_empty ==
            Span(K, R) \cup Span(K, K_dest) \cup {R_dest}
                \cup (IF with_king_dest THEN {K_dest} ELSE {})
    IN /\ R \notin b.pinned
       /\ (occupied(b) \ {K, R}) \cap must_be_empty = {}
       /\ \A sq \in must_be_safe : king_safe_on(b, sq)

\* In a generation that ran to its end on a valid board, the castling move
\* of every present castle right is among the Moves (from the king to the
\* rook's square) exactly when the side is not in check and the condition
\* holds.
CastlingGeneratedWhen(with_king_dest) ==
    (last.op = "generate_moves" /\ last.listener = 0 /\ validity_check(last.pre)) =>
        LET b == last.pre
            color == b.side_to_move
            back == RelativeTo(RankFirst, color)
            generated == SeqRange(ExpandCalls(last.calls))
            castle(file) ==
                [from |-> king(b, color), to |-> SquareNew(file, back),
                 promotion |-> {}]
        IN /\ \A file \in b.castle_rights[color].short :
                 castle(file) \in generated <=>
                     (b.checkers = {} /\ CastleCondition(b, file, TRUE, with_king_dest))
           /\ \A file \in b.castle_rights[color].long :
                 castle(file) \in generated <=>
                     (b.checkers = {} /\ CastleCondition(b, file, FALSE, with_king_dest))

\* C23 as stated: "must be empty" is between(K, R), between(K, K_dest) and
\* R_dest.
CastlingConditionAsStated == CastlingGeneratedWhen(FALSE)

\* C23: when the side to move is not in check, the castling move of a
\* present castle right is generated, from the king to the rook's square,
\* iff the rook is not pinned, nothing but king and rook stands on
\* between(K, R), between(K, K_dest), K_dest and R_dest, and king_safe_on
\* holds on K_dest and between(K, K_dest); in check it is never generated.
CastlingCondition == CastlingGeneratedWhen(TRUE)

\* A generation on the board whose king destination is taken by a bishop
\* while the squares of the claim as stated are empty and safe: the
\* castling move is not generated.
CastlingConditionWitness ==
    /\ last.op = "generate_moves" /\ last.listener = 0
    /\ validity_check(last.pre) /\ last.pre.checkers = {}
    /\ \E file \in last.pre.castle_rights[last.pre.side_to_move].long :
          /\ CastleCondition(last.pre, file, FALSE, FALSE)
          /\ ~CastleCondition(last.pre, file, FALSE, TRUE)
    /\ CastlingCondition

\* The destinations a piece on sq of the side to move has before pins and
\* checks are looked at; a pawn's en passant capture is not among them.
PseudoLegalDestinations(b, sq) ==
    LET color == b.side_to_move
        piece == Unwrap(piece_on(b, sq))
    IN CASE piece = "Pawn" ->
                get_pawn_quiets(sq, color, occupied(b))
                    \cup (get_pawn_attacks(sq, color) \cap b.colors[Not(color)])
         [] piece = "Knight" -> get_knight_moves(sq)
         [] piece = "King" -> get_king_moves(sq)
         [] OTHER -> pseudo_legals(piece, sq, occupied(b))

\* The destinations the generation passed to the listener for the piece on
\* sq, en passant captures left aside.
OrdinaryDestinations(b, calls, sq) ==
    {to \in UNION {calls[i].to : i \in {j \in DOMAIN calls : calls[j].from = sq}} :
        ~IsEnPassantCapture(b, [from |-> sq, to |-> to, promotion |-> {}])}

\* C24: in a generation that ran to its end on a valid board, a pinned
\* piece of the side to move gets, when the side is not in check, exactly
\* its pseudo-legal destinations on the line through king and piece that
\* hold no own piece (none for a knight); when the side is in check by one
\* checker it gets no ordinary destination, and it has no legal move other
\* than an en passant capture.
PinnedPieces ==
    (last.op = "generate_moves" /\ last.listener = 0 /\ validity_check(last.pre)) =>
        LET b == last.pre
            color == b.side_to_move
            K == king(b, color)
        IN \A sq \in b.pinned \cap b.colors[color] :
              /\ b.checkers = {} =>
                    /\ OrdinaryDestinations(b, last.calls, sq) =
                          (PseudoLegalDestinations(b, sq) \cap WholeLine(K, sq))
                              \ b.colors[color]
                    /\ sq \in b.pieces["Knight"] =>
                          OrdinaryDestinations(b, last.calls, sq) = {}
              /\ Cardinality(b.checkers) = 1 =>
                    /\ OrdinaryDestinations(b, last.calls, sq) = {}
                    /\ \A to \in Squares : \A promotion \in Promotions(b, sq, to) :
                          LET mv == [from |-> sq, to |-> to, promotion |-> promotion]
                          IN RuleLegal(b, mv) => IsEnPassantCapture(b, mv)

\* A generation without check in which a pinned rook got destinations on
\* the line through its king and has pseudo-legal destinations off it.
PinnedPiecesWitness ==
    /\ last.op = "generate_moves" /\ last.listener = 0
    /\ validity_check(last.pre) /\ last.pre.checkers = {}
    /\ \E sq \in last.pre.pinned \cap last.pre.colors[last.pre.side_to_move]
                      \cap last.pre.pieces["Rook"] :
          /\ OrdinaryDestinations(last.pre, last.calls, sq) # {}
          /\ PseudoLegalDestinations(last.pre, sq) \ last.pre.colors[last.pre.side_to_move]
                # OrdinaryDestinations(last.pre, last.calls, sq)
    /\ PinnedPieces

\* C25: on a board that passes validity_check with the side to move in
\* check by exactly one checker and an en passant file set, every en
\* passant capture that generate_moves passes to the listener leaves the
\* mover's king attacked by no enemy piece once it is played.
EnPassantResolvesCheck ==
    (/\ last.op = "generate_moves" /\ validity_check(last.pre)
     /\ Cardinality(last.pre.checkers) = 1 /\ last.pre.en_passant # {}) =>
        \A mv \in SeqRange(ExpandCalls(last.calls)) :
            IsEnPassantCapture(last.pre, mv) =>
                ~RuleInCheck(try_play_unchecked(last.pre, mv).board,
                             last.pre.side_to_move)

\* The loop of its piece kind that passed the PieceMoves to the listener:
\* 1 for the pieces that are not pinned, 2 for the pinned ones, 3 for the
\* en passant captures.
SubCategory(b, moves) ==
    IF \E to \in moves.to :
          IsEnPassantCapture(b, [from |-> moves.from, to |-> to, promotion |-> {}])
    THEN 3
    ELSE IF moves.from \in b.pinned THEN 2 ELSE 1

\* C26 as stated: the PieceMoves of one piece kind reach the listener in
\* ascending order of their `from` squares.
KindOrderAsStated ==
    (last.op = "generate_moves" /\ validity_check(last.pre)) =>
        \A i, j \in DOMAIN last.calls :
            (i < j /\ last.calls[i].piece = last.calls[j].piece) =>
                last.calls[i].from <= last.calls[j].from

\* C26: the PieceMoves of one piece kind reach the listener loop by loop,
\* pieces that are not pinned first, pinned pieces next, en passant
\* captures last, and within one loop in strictly ascending order of their
\* `from` squares.
KindOrder ==
    (last.op = "generate_moves" /\ validity_check(last.pre)) =>
        \A i, j \in DOMAIN last.calls :
            (i < j /\ last.calls[i].piece = last.calls[j].piece) =>
                LET first == SubCategory(last.pre, last.calls[i])
                    second == SubCategory(last.pre, last.calls[j])
                IN /\ first <= second
                   /\ first = second => last.calls[i].from < last.calls[j].from

\* A generation in which a pinned piece comes after a piece of its kind
\* that is not pinned and stands on a higher square.
KindOrderWitness ==
    /\ last.op = "generate_moves" /\ validity_check(last.pre)
    /\ \E i, j \in DOMAIN last.calls :
          /\ i < j /\ last.calls[i].piece = last.calls[j].piece
          /\ last.calls[i].from > last.calls[j].from
          /\ last.calls[j].from \in last.pre.pinned
    /\ KindOrder

\* C27 as stated: no two PieceMoves of one generation belong to the same
\* loop of the same piece kind.
OncePerSubCategoryAsStated ==
    (last.op = "generate_moves" /\ validity_check(last.pre)) =>
        \A i, j \in DOMAIN last.calls :
            (i < j /\ last.calls[i].piece = last.calls[j].piece) =>
                SubCategory(last.pre, last.calls[i]) # SubCategory(last.pre, last.calls[j])

\* C27: the listener is invoked at most once for each piece in each loop
\* of its piece kind: two PieceMoves of the same kind and the same loop
\* have different `from` squares, and there is one PieceMoves for the king
\* at most.
OncePerSubCategory ==
    (last.op = "generate_moves" /\ validity_check(last.pre)) =>
        /\ \A i, j \in DOMAIN last.calls :
              (/\ i < j /\ last.calls[i].piece = last.calls[j].piece
               /\ SubCategory(last.pre, last.calls[i]) = SubCategory(last.pre, last.calls[j])) =>
                  last.calls[i].from # last.calls[j].from
        /\ Cardinality({i \in DOMAIN last.calls : last.calls[i].piece = "King"}) <= 1

\* A generation that passed two pieces of one kind from the same loop.
OncePerSubCategoryWitness ==
    /\ last.op = "generate_moves" /\ validity_check(last.pre)
    /\ \E i, j \in DOMAIN last.calls :
          /\ i < j /\ last.calls[i].piece = last.calls[j].piece
          /\ SubCategory(last.pre, last.calls[i]) = SubCategory(last.pre, last.calls[j])
          /\ last.calls[i].from # last.calls[j].from
    /\ OncePerSubCategory

\* The castle right of `color` on one side may go from `old` to `new` in
\* the last step: it stays, or it is dropped by a move of the king of
\* `color` (castling included), by a move of the rook of `color` that
\* holds the right, or by a capture on that rook's square.
RightStep(color, old, new) ==
    \/ new = old
    \/ /\ new = {} /\ last.op = "try_play"
       /\ LET mover == last.pre.side_to_move
              rook == SquareNew(Unwrap(old), RelativeTo(RankFirst, color))
          IN IF color = mover
             THEN \/ piece_on(last.pre, last.mv.from) = {"King"}
                  \/ /\ piece_on(last.pre, last.mv.from) = {"Rook"}
                     /\ last.mv.from = rook
             ELSE /\ last.mv.to = rook
                  /\ piece_on(last.pre, rook) = {"Rook"}
                  /\ color_on(last.pre, rook) = {color}

\* A generated move was played on a valid board or a null move was made.
MovedOrPassed ==
    \/ PlayedOnValid
    \/ last.op = "null_move" /\ last.ret = "ok"

\* C28: over a generated move or a null move a castle right that is None
\* stays None and a right that is Some(f) stays Some(f) or becomes None;
\* it becomes None only for the mover by a king move, a castle or a move
\* of the rook that holds it, or for the opponent when that rook is
\* captured on its back rank; a null move changes no right.
CastleRightsMonotone ==
    MovedOrPassed =>
        \A color \in Colors :
            /\ RightStep(color, last.pre.castle_rights[color].short,
                         board.castle_rights[color].short)
            /\ RightStep(color, last.pre.castle_rights[color].long,
                         board.castle_rights[color].long)

\* A rook that holds a castle right moved while its side had the other
\* right too: the one was dropped, the other stayed.
CastleRightsMonotoneWitness ==
    /\ PlayedOnValid
    /\ piece_on(last.pre, last.mv.from) = {"Rook"}
    /\ \E color \in Colors :
          /\ last.pre.castle_rights[color].short # {}
          /\ last.pre.castle_rights[color].long # {}
          /\ (board.castle_rights[color].short = {}) # (board.castle_rights[color].long = {})
    /\ CastleRightsMonotone

\* The place of a subset among the subsets of `mask` in ascending numeric
\* order, counted from 0: the number whose binary digits are the subset's
\* membership bits over the squares of the mask.
RECURSIVE SubsetRank(_, _)
SubsetRank(subset, mask) ==
    IF mask = {} THEN 0
    ELSE LET top == CHOOSE sq \in mask : \A other \in mask : sq >= other
         IN (IF top \in subset THEN 2 ^ (Cardinality(mask) - 1) ELSE 0)
                + SubsetRank(subset, mask \ {top})

\* After every pass of write_moves: the pass numbered n of a square (from
\* 1) has stored the ray walk of the subset of the mask whose rank is
\* n - 1 at that subset's index, so that the first subset is the empty one
\* and no subset comes twice; the loop goes on with a subset that is not
\* empty while fewer than 2^popcount(mask) passes are done, and breaks
\* with the empty set after exactly 2^popcount(mask) passes.
WriteMovesCounts ==
    lookup.count >= 1 =>
        LET square == lookup.square
            mask == IF lookup.diagonal THEN BishopMaskTable[square]
                    ELSE RookMaskTable[square]
            subsets == 2 ^ Cardinality(mask)
            visited == lookup.entry.index[2]
        IN /\ lookup.entry.index[1] = square
           /\ visited \subseteq mask
           /\ SubsetRank(visited, mask) = lookup.count - 1
           /\ lookup.entry.moves = RayWalk(square, visited, lookup.diagonal)
           /\ lookup.op = "loop" =>
                 /\ lookup.blockers # {} /\ lookup.blockers \subseteq mask
                 /\ lookup.count < subsets
           /\ lookup.op = "break" =>
                 /\ lookup.blockers = {}
                 /\ lookup.count = subsets

\* The loop has broken.
WriteMovesDone == lookup.op = "break"

\* C29: for every square the loop of write_moves starts at the empty set,
\* visits every subset of the relevant-blocker mask exactly once, storing
\* its ray walk at its table index, and breaks after exactly
\* 2^popcount(mask) passes when the blocker set is empty again; the loop
\* of every square ends.
WriteMovesExhaustive == []WriteMovesCounts /\ <>WriteMovesDone

\* The loop of a rook in a corner has broken after its 4096 passes.
WriteMovesWitness ==
    /\ lookup.op = "break" /\ ~lookup.diagonal
    /\ lookup.count = 4096
    /\ WriteMovesCounts

\* C30: in the copy under src/src, a generation whose listener returned
\* true stops there and returns true, and status() is Ongoing whenever the
\* side to move has a legal move.
SrcAbortReturnsTrue ==
    /\ (last.op = "generate_moves" /\ last.listener >= 1
            /\ Len(last.calls) >= last.listener) =>
          /\ last.ret = "true"
          /\ Len(last.calls) = last.listener
    /\ (last.op = "status" /\ RuleLegalMoves(last.pre) # {}) =>
          last.ret = "Ongoing"
====
